---- MODULE Spec2Model ----
(***************************************************************************)
(* Model of the text-metrics engine of Write: the Counter (counter.ts),    *)
(* the Overflow Detector (overflow.ts), the grade labels of the            *)
(* Readability Analyzer and the Reading-Time Estimator.                    *)
(*                                                                         *)
(* A text is a sequence of one-character strings.  The source indexes text *)
(* from 0; the model keeps the source's 0-based indices in every result    *)
(* and reads character i of the source as text[i + 1].                     *)
(***************************************************************************)
EXTENDS Integers, Sequences, FiniteSets, TLC

VARIABLES
  pc,          \* "ready" before the call of the specification, "done" after
  text,        \* the text analysed
  limitType,   \* the limit kind passed to detectOverflow
  limitValue,  \* the limit value passed to detectOverflow
  overflow,    \* the OverflowResult returned
  counts,      \* the CountResult returned by count(text)
  wpm,         \* the words-per-minute rate of the reading-time calls
  readings,    \* the last two estimateReadingTime calls, oldest first
  readability, \* the grades and grade labels of a ReadabilityResult
  analysis,    \* what analyzeReadability returned, and from which counts
  topN,        \* the topN passed to analyzeStatistics
  statistics,  \* the StatisticsResult returned
  scan,        \* the locals of the loop of countSentences
  sentences,   \* the value countSentences returned
  dbPromise,   \* the cached connection of db.ts: "null", "open" or "closed"
  documents,   \* the object store "documents": id -> content
  versions,    \* the object store "versions": a set of version records
  lastCall,    \* the last persistence call and how it settled
  latest,      \* id -> the content last passed to saveDocument
  storage,     \* the localStorage: key -> item
  lastLoad,    \* the UserSettings the last call returned, if loadSettings
  saved,       \* setting -> the value last passed to saveSetting
  frame,       \* the running call of a scan: function, position, locals
  nextId,      \* the toast store: the id of the next toast
  toasts,      \* the toast store: the entries displayed, in stacking order
  timers,      \* the toast store: the ids that have a timer in the Map
  pending,     \* the timers set with setTimeout and neither fired nor cleared
  now,         \* the time in ms
  created,     \* every toast() call so far: id, time of the call, duration
  clicked,     \* the ids of the toasts dismissed by a click
  cleared,     \* the ids of the toasts removed by clearToasts()
  currentTheme,\* the theme store: the theme useTheme returns
  dataTheme,   \* the data-theme attribute of the document root, or "none"
  system,      \* the colour scheme the system prefers, if it tells
  lastToggle   \* the theme the last toggleTheme set, or "none"

statisticsVars == <<topN, statistics>>
scanVars == <<scan, sentences>>
dbVars == <<dbPromise, documents, versions, lastCall, latest>>
settingsVars == <<storage, lastLoad, saved>>
loopVars == <<frame>>
toastVars == <<nextId, toasts, timers, pending, now, created, clicked, cleared>>
themeVars == <<currentTheme, dataTheme, system, lastToggle>>
appVars == <<loopVars, toastVars, themeVars>>

vars == <<pc, text, limitType, limitValue, overflow, counts, wpm, readings,
          readability, analysis, statisticsVars, scanVars, dbVars,
          settingsVars, appVars>>

(***************************************************************************)
(* Bounds of the model.                                                    *)
(***************************************************************************)
MaxLen == 6
MaxParaLen == 7
MaxLimit == 3
MaxNegLimit == 1
MaxSentenceLen == 6
MaxWords == 12
MaxWpm == 6
MaxNegWords == 1
MaxNegWpm == 1
MaxGradeTenths == 175
MaxNegGradeTenths == 36
MaxReadabilityLen == 3
MaxStatisticsLen == 5
MaxTopN == 2
MaxUpdatedAt == 2
MaxVersionId == 3
MaxCount == 2
MaxScanLen == 6
MaxEllipsisLen == 2
MaxBreakLen == 6
MaxLoopLen == 4
MaxLoopLimit == 2
MaxToasts == 3
MaxClock == 4500
MaxRunLen == 22

(***************************************************************************)
(* Characters.                                                             *)
(***************************************************************************)
LF == "\n"
CR == "\r"

\* the characters the regular expression class \s accepts, as far as the
\* alphabets of the model contain them
isWhitespace(c) == c \in {" ", "\t", LF, CR}

\* all texts over alphabet of length at most n
TextsOver(alphabet, n) == UNION {[1..k -> alphabet] : k \in 0..n}

\* text.slice(from, to) with 0-based, half-open indices
slice(s, from, to) == SubSeq(s, from + 1, to)

(***************************************************************************)
(* String.prototype.trim                                                   *)
(***************************************************************************)
RECURSIVE leadingWhitespace(_, _)
leadingWhitespace(s, i) ==
  IF i < Len(s) /\ isWhitespace(s[i + 1]) THEN leadingWhitespace(s, i + 1) ELSE i

RECURSIVE trailingWhitespaceStart(_, _)
trailingWhitespaceStart(s, e) ==
  IF e > 0 /\ isWhitespace(s[e]) THEN trailingWhitespaceStart(s, e - 1) ELSE e

trim(s) ==
  LET b == leadingWhitespace(s, 0)
      e == trailingWhitespaceStart(s, Len(s))
  IN IF b >= e THEN << >> ELSE slice(s, b, e)

(***************************************************************************)
(* counter.ts: countWords                                                  *)
(***************************************************************************)
\* the number of matches of /\S+/g: the maximal runs of non-whitespace
matchNonWhitespaceRuns(s) ==
  Cardinality({i \in 1..Len(s) :
                 /\ ~isWhitespace(s[i])
                 /\ (i = 1 \/ isWhitespace(s[i - 1]))})

countWords(t) ==
  LET trimmed == trim(t)
  IN IF trimmed = << >> THEN 0 ELSE matchNonWhitespaceRuns(trimmed)

(***************************************************************************)
(* counter.ts: countParagraphs                                             *)
(***************************************************************************)
\* the repetition of \n alone, as for the pattern /\n{2,}/
RECURSIVE lineBreakRunNoCR(_, _, _)
lineBreakRunNoCR(s, p, n) ==
  IF p < Len(s) /\ s[p + 1] = LF
    THEN lineBreakRunNoCR(s, p + 1, n + 1)
    ELSE [end |-> p, count |-> n]

\* greedy repetition of \r?\n from index p: the end of the run and the
\* number of line breaks in it
RECURSIVE lineBreakRun(_, _, _)
lineBreakRun(s, p, n) ==
  IF p + 1 < Len(s) /\ s[p + 1] = CR /\ s[p + 2] = LF
    THEN lineBreakRun(s, p + 2, n + 1)
  ELSE IF p < Len(s) /\ s[p + 1] = LF
    THEN lineBreakRun(s, p + 1, n + 1)
  ELSE [end |-> p, count |-> n]

\* s.split(/(?:\r?\n){2,}/): the blocks as <<start, end>> index pairs of s,
\* scanning for the next match from p with the current block starting at b
RECURSIVE splitParagraphs(_, _, _)
splitParagraphs(s, p, b) ==
  IF p >= Len(s) THEN << <<b, Len(s)>> >>
  ELSE LET r == lineBreakRun(s, p, 0)
       IN IF r.count >= 2
            THEN << <<b, p>> >> \o splitParagraphs(s, r.end, r.end)
            ELSE splitParagraphs(s, p + 1, b)

\* .filter((block) => block.trim().length > 0) over the blocks of trim(t)
paragraphBlocks(t) ==
  LET trimmed == trim(t)
      nonBlank(blk) == Len(trim(slice(trimmed, blk[1], blk[2]))) > 0
  IN IF trimmed = << >> THEN << >>
     ELSE SelectSeq(splitParagraphs(trimmed, 0, 0), nonBlank)

countParagraphs(t) == Len(paragraphBlocks(t))

(***************************************************************************)
(* overflow.ts: detectWordOverflow                                         *)
(***************************************************************************)
OverflowResult(isOver, overflowAmount, boundaryCharIndex) ==
  [isOver |-> isOver, overflowAmount |-> overflowAmount,
   boundaryCharIndex |-> boundaryCharIndex]

\* while (i < text.length && /\s/.test(text[i])) i++
RECURSIVE skipWhitespace(_, _)
skipWhitespace(t, i) ==
  IF i < Len(t) /\ isWhitespace(t[i + 1]) THEN skipWhitespace(t, i + 1) ELSE i

\* while (i < text.length && !/\s/.test(text[i])) i++
RECURSIVE skipWord(_, _)
skipWord(t, i) ==
  IF i < Len(t) /\ ~isWhitespace(t[i + 1]) THEN skipWord(t, i + 1) ELSE i

\* the loop that consumes limit words; its value is i when the loop ends
RECURSIVE walkWords(_, _, _, _)
walkWords(t, limit, i, wordCount) ==
  IF i < Len(t) /\ wordCount < limit
    THEN LET j == skipWhitespace(t, i)
         IN IF j >= Len(t) THEN j
            ELSE walkWords(t, limit, skipWord(t, j), wordCount + 1)
    ELSE i

wordBoundaryNoSkip(t, limit) == walkWords(t, limit, 0, 0)

\* the boundary: skip the whitespace after the last allowed word
wordBoundary(t, limit) == skipWhitespace(t, walkWords(t, limit, 0, 0))

detectWordOverflowNoZeroCase(t, limit) ==
  LET totalWords == countWords(t)
  IN IF totalWords <= limit THEN OverflowResult(FALSE, 0, Len(t))
     ELSE OverflowResult(TRUE, totalWords - limit, wordBoundary(t, limit))

detectWordOverflow(t, limit) ==
  LET totalWords == countWords(t)
  IN IF totalWords <= limit THEN OverflowResult(FALSE, 0, Len(t))
     ELSE IF limit = 0 THEN OverflowResult(TRUE, totalWords, 0)
     ELSE OverflowResult(TRUE, totalWords - limit, wordBoundary(t, limit))

(***************************************************************************)
(* overflow.ts: detectCharacterOverflow                                    *)
(***************************************************************************)
detectCharacterOverflowAlwaysLimit(t, limit) ==
  IF Len(t) <= limit THEN OverflowResult(FALSE, 0, limit)
  ELSE OverflowResult(TRUE, Len(t) - limit, limit)

detectCharacterOverflowTrimmed(t, limit) ==
  IF Len(trim(t)) <= limit THEN OverflowResult(FALSE, 0, Len(t))
  ELSE OverflowResult(TRUE, Len(trim(t)) - limit, limit)

detectCharacterOverflow(t, limit) ==
  IF Len(t) <= limit THEN OverflowResult(FALSE, 0, Len(t))
  ELSE OverflowResult(TRUE, Len(t) - limit, limit)

(***************************************************************************)
(* overflow.ts: detectParagraphOverflow                                    *)
(***************************************************************************)
isLineEnd(c) == c = LF \/ c = CR

\* the innermost loop: counts \r\n as one line ending, \n or \r as one
RECURSIVE countLineEndings(_, _, _)
countLineEndings(t, i, lineEndCount) ==
  IF i < Len(t) /\ isLineEnd(t[i + 1])
    THEN IF t[i + 1] = CR /\ i + 1 < Len(t) /\ t[i + 2] = LF
           THEN countLineEndings(t, i + 2, lineEndCount + 1)
           ELSE countLineEndings(t, i + 1, lineEndCount + 1)
    ELSE [i |-> i, lineEndCount |-> lineEndCount]

\* consume the rest of the paragraph: the value of i after the inner loop
RECURSIVE consumeParagraph(_, _)
consumeParagraph(t, i) ==
  IF i < Len(t)
    THEN IF isLineEnd(t[i + 1])
           THEN LET r == countLineEndings(t, i, 0)
                IN IF r.lineEndCount >= 2 THEN r.i
                   ELSE consumeParagraph(t, r.i)
           ELSE consumeParagraph(t, i + 1)
    ELSE i

\* the outer loop; its value is the boundaryCharIndex returned
RECURSIVE scanParagraphs(_, _, _, _)
scanParagraphs(t, limit, i, paraCount) ==
  IF i < Len(t)
    THEN IF isLineEnd(t[i + 1])
           THEN scanParagraphs(t, limit, i + 1, paraCount)
           ELSE IF paraCount + 1 > limit THEN i
                ELSE scanParagraphs(t, limit, consumeParagraph(t, i),
                                    paraCount + 1)
    ELSE Len(t)

detectParagraphOverflow(t, limit) ==
  LET totalParagraphs == countParagraphs(t)
  IN IF totalParagraphs <= limit THEN OverflowResult(FALSE, 0, Len(t))
     ELSE IF limit = 0 THEN OverflowResult(TRUE, totalParagraphs, 0)
     ELSE OverflowResult(TRUE, totalParagraphs - limit,
                         scanParagraphs(t, limit, 0, 0))

(***************************************************************************)
(* overflow.ts: detectOverflow                                             *)
(***************************************************************************)
LimitType == {"words", "characters", "paragraphs"}

detectOverflow(t, type, value) ==
  IF t = << >> THEN OverflowResult(FALSE, 0, Len(t))
  ELSE CASE type = "words" -> detectWordOverflow(t, value)
         [] type = "characters" -> detectCharacterOverflow(t, value)
         [] type = "paragraphs" -> detectParagraphOverflow(t, value)

(***************************************************************************)
(* counter.ts: countCharacters                                             *)
(***************************************************************************)
\* without the guard for empty and whitespace-only text
countCharactersUnguarded(t, includeSpaces) ==
  IF includeSpaces THEN Len(t)
  ELSE Len(SelectSeq(t, LAMBDA c : ~isWhitespace(c)))

countCharacters(t, includeSpaces) ==
  IF t = << >> \/ trim(t) = << >> THEN 0
  ELSE IF includeSpaces THEN Len(t)
  ELSE Len(SelectSeq(t, LAMBDA c : ~isWhitespace(c)))

(***************************************************************************)
(* counter.ts: ABBREVIATIONS, INITIALS_RE, getWordBeforePeriod             *)
(***************************************************************************)
UpperCase ==
  <<"A", "B", "C", "D", "E", "F", "G", "H", "I", "J", "K", "L", "M",
    "N", "O", "P", "Q", "R", "S", "T", "U", "V", "W", "X", "Y", "Z">>

LowerCase ==
  <<"a", "b", "c", "d", "e", "f", "g", "h", "i", "j", "k", "l", "m",
    "n", "o", "p", "q", "r", "s", "t", "u", "v", "w", "x", "y", "z">>

isUpper(c) == \E k \in 1..26 : UpperCase[k] = c
isLower(c) == \E k \in 1..26 : LowerCase[k] = c
isLetter(c) == isUpper(c) \/ isLower(c)

\* String.prototype.toLowerCase on the characters of the model
toLowerCase(w) ==
  [k \in 1..Len(w) |->
     IF isUpper(w[k])
       THEN LowerCase[CHOOSE j \in 1..26 : UpperCase[j] = w[k]]
       ELSE w[k]]

ABBREVIATIONS ==
  {<<"m", "r">>, <<"m", "r", "s">>, <<"m", "s">>, <<"d", "r">>,
   <<"p", "r", "o", "f">>, <<"s", "r">>, <<"j", "r">>, <<"s", "t">>,
   <<"a", "v", "e">>, <<"b", "l", "v", "d">>, <<"d", "e", "p", "t">>,
   <<"e", "s", "t">>, <<"f", "i", "g">>, <<"g", "o", "v", "t">>,
   <<"i", "n", "c">>, <<"l", "t", "d">>, <<"v", "s">>, <<"e", "t", "c">>,
   <<"a", "p", "p", "r", "o", "x">>, <<"a", "p", "p", "t">>,
   <<"d", "e", "p", "t", "s">>, <<"g", "e", "n">>, <<"h", "o", "n">>,
   <<"s", "g", "t">>, <<"c", "p", "l">>, <<"p", "v", "t">>,
   <<"c", "a", "p", "t">>, <<"l", "t">>, <<"c", "o", "l">>,
   <<"m", "a", "j">>, <<"c", "m", "d", "r">>, <<"a", "d", "m">>,
   <<"r", "e", "v">>}

\* /^[A-Z]$/
INITIALS_RE(w) == Len(w) = 1 /\ isUpper(w[1])

\* the number of characters the backward scan may visit
LookBack == 20

\* the backward loop: the value of start when the loop ends
RECURSIVE scanBack(_, _, _)
scanBack(t, start, minStart) ==
  IF start >= minStart /\ isLetter(t[start + 1])
    THEN scanBack(t, start - 1, minStart)
    ELSE start

\* the same looking back over one character only
getWordBeforePeriodOneBack(t, dotIndex) ==
  LET minStart == IF dotIndex - 1 > 0 THEN dotIndex - 1 ELSE 0
      start == scanBack(t, dotIndex - 1, minStart) + 1
  IN IF start = dotIndex THEN << >> ELSE slice(t, start, dotIndex)

\* the word before the period at dotIndex; the empty sequence stands for null
getWordBeforePeriod(t, dotIndex) ==
  LET minStart == IF dotIndex - LookBack > 0 THEN dotIndex - LookBack ELSE 0
      start == scanBack(t, dotIndex - 1, minStart) + 1
  IN IF start = dotIndex THEN << >> ELSE slice(t, start, dotIndex)

(***************************************************************************)
(* counter.ts: countSentences                                              *)
(***************************************************************************)
\* one dot consumed instead of the run
skipOneDot(t, i) == i + 1

\* while (i < trimmed.length && trimmed[i] === ".") i++
RECURSIVE skipDots(_, _)
skipDots(t, i) ==
  IF i < Len(t) /\ t[i + 1] = "." THEN skipDots(t, i + 1) ELSE i

\* while (i < trimmed.length && /[\s.!?]/.test(trimmed[i])) i++
RECURSIVE skipTerminators(_, _)
skipTerminators(t, i) ==
  IF i < Len(t) /\ (isWhitespace(t[i + 1]) \/ t[i + 1] \in {".", "!", "?"})
    THEN skipTerminators(t, i + 1)
    ELSE i

\* the marks after the first one left for the next iterations
skipNoMarks(t, i) == i

\* while (i < trimmed.length && /[!?]/.test(trimmed[i])) i++
RECURSIVE skipMarks(_, _)
skipMarks(t, i) ==
  IF i < Len(t) /\ t[i + 1] \in {"!", "?"} THEN skipMarks(t, i + 1) ELSE i

\* /^\s*[A-Z]\./.test(trimmed.slice(i + 1))
continuesInitialism(t, i) ==
  LET j == skipWhitespace(t, i + 1)
  IN j + 1 < Len(t) /\ isUpper(t[j + 1]) /\ t[j + 2] = "."

\* an initial never continued by a lowercase word
continuesLowercaseNever(t, i) == FALSE

\* /^\s*[a-z]/.test(trimmed.slice(i + 1))
continuesLowercase(t, i) ==
  LET j == skipWhitespace(t, i + 1)
  IN j < Len(t) /\ isLower(t[j + 1])

\* the same without the abbreviations
periodIsSkippedInitialsOnly(t, i) ==
  LET beforeDot == getWordBeforePeriod(t, i)
  IN /\ beforeDot # << >>
     /\ INITIALS_RE(beforeDot)
     /\ (continuesInitialism(t, i) \/ continuesLowercase(t, i))

\* the period at i is not a sentence end: an abbreviation or an initial
\* that continues
periodIsSkipped(t, i) ==
  LET beforeDot == getWordBeforePeriod(t, i)
  IN /\ beforeDot # << >>
     /\ \/ toLowerCase(beforeDot) \in ABBREVIATIONS
        \/ /\ INITIALS_RE(beforeDot)
           /\ (continuesInitialism(t, i) \/ continuesLowercase(t, i))

ScanState(i, sentenceCount, lastBoundaryEnd) ==
  [i |-> i, sentenceCount |-> sentenceCount,
   lastBoundaryEnd |-> lastBoundaryEnd]

\* one iteration of the scan loop, from a state with st.i < Len(t)
scanStep(t, st) ==
  LET i == st.i
      ch == t[i + 1]
  IN IF ch = "."
       THEN IF i + 1 < Len(t) /\ t[i + 2] = "."
              THEN LET j == skipWhitespace(t, skipDots(t, i))
                   IN IF j < Len(t)
                        THEN ScanState(j, st.sentenceCount + 1, j)
                        ELSE ScanState(j, st.sentenceCount,
                                       st.lastBoundaryEnd)
            ELSE IF periodIsSkipped(t, i)
              THEN ScanState(i + 1, st.sentenceCount, st.lastBoundaryEnd)
            ELSE LET j == skipTerminators(t, i + 1)
                 IN ScanState(j, st.sentenceCount + 1, j)
     ELSE IF ch = "!" \/ ch = "?"
       THEN LET j == skipWhitespace(t, skipMarks(t, i + 1))
            IN ScanState(j, st.sentenceCount + 1, j)
     ELSE ScanState(i + 1, st.sentenceCount, st.lastBoundaryEnd)

\* while (i < trimmed.length): the state when the loop ends
RECURSIVE scanSentences(_, _)
scanSentences(t, st) ==
  IF st.i < Len(t) THEN scanSentences(t, scanStep(t, st)) ELSE st

\* the result computed from the state the scan ends in
sentencesAfterScanBoundariesOnly(t, st) == st.sentenceCount

\* a trailing fragment counted whether or not text remains
sentencesAfterScanAlwaysFragment(t, st) == st.sentenceCount + 1

sentencesAfterScan(t, st) ==
  IF st.sentenceCount = 0 THEN 1
  ELSE IF st.lastBoundaryEnd < Len(t)
            /\ \E k \in (st.lastBoundaryEnd + 1)..Len(t) : ~isWhitespace(t[k])
    THEN st.sentenceCount + 1
    ELSE st.sentenceCount

countSentences(t) ==
  LET trimmed == trim(t)
  IN IF trimmed = << >> THEN 0
     ELSE IF matchNonWhitespaceRuns(trimmed) = 0 THEN 0
     ELSE sentencesAfterScan(trimmed, scanSentences(trimmed, ScanState(0, 0, 0)))

(***************************************************************************)
(* counter.ts: count                                                       *)
(***************************************************************************)
count(t) ==
  [words |-> countWords(t),
   characters |-> countCharacters(t, TRUE),
   charactersNoSpaces |-> countCharacters(t, FALSE),
   paragraphs |-> countParagraphs(t),
   sentences |-> countSentences(t)]

(***************************************************************************)
(* estimateReadingTime (settings.ts, lines 201-226)                        *)
(***************************************************************************)
Return(value) == [kind |-> "return", value |-> value]
Throw(error) == [kind |-> "throw", value |-> error]

ReadingTimeResult(minutes, label) == [minutes |-> minutes, label |-> label]

\* Math.ceil(wordCount / wpm) for integers wordCount > 0 and wpm > 0
ceilDiv(wordCount, rate) == (wordCount + rate - 1) \div rate

estimateReadingTimeRounded(wordCount, rate) ==
  IF wordCount <= 0 THEN Return(ReadingTimeResult(0, "< 1 min read"))
  ELSE IF rate <= 0 THEN Throw("RangeError")
  ELSE IF 4 * wordCount < rate
    THEN Return(ReadingTimeResult(0, "< 1 min read"))
  ELSE LET minutes == (2 * wordCount + rate) \div (2 * rate)
       IN Return(ReadingTimeResult(minutes,
                                   "~" \o ToString(minutes) \o " min read"))

estimateReadingTimeSwapped(wordCount, rate) ==
  IF wordCount <= 0 THEN Return(ReadingTimeResult(0, "< 1 min read"))
  ELSE IF rate <= 0 THEN Throw("RangeError")
  ELSE IF 4 * rate < wordCount
    THEN Return(ReadingTimeResult(0, "< 1 min read"))
  ELSE LET minutes == ceilDiv(rate, wordCount)
       IN Return(ReadingTimeResult(minutes,
                                   "~" \o ToString(minutes) \o " min read"))

\* raw = wordCount / wpm < 0.25 exactly when 4 * wordCount < wpm
estimateReadingTime(wordCount, rate) ==
  IF wordCount <= 0 THEN Return(ReadingTimeResult(0, "< 1 min read"))
  ELSE IF rate <= 0 THEN Throw("RangeError")
  ELSE IF 4 * wordCount < rate
    THEN Return(ReadingTimeResult(0, "< 1 min read"))
  ELSE LET minutes == ceilDiv(wordCount, rate)
       IN Return(ReadingTimeResult(minutes,
                                   "~" \o ToString(minutes) \o " min read"))

\* the default value of the parameter wpm
DefaultWpm == 250

(***************************************************************************)
(* analyzeStatistics                                                       *)
(***************************************************************************)
STOP_WORDS ==
  {<<"a">>, <<"a", "n">>, <<"a", "n", "d">>, <<"a", "r", "e">>,
   <<"a", "s">>, <<"a", "t">>, <<"b", "e">>, <<"b", "u", "t">>,
   <<"b", "y">>, <<"f", "o", "r">>, <<"f", "r", "o", "m">>,
   <<"h", "a", "d">>, <<"h", "a", "s">>, <<"h", "a", "v", "e">>,
   <<"h", "e">>, <<"h", "e", "r">>, <<"h", "i", "s">>, <<"h", "o", "w">>,
   <<"i">>, <<"i", "f">>, <<"i", "n">>, <<"i", "n", "t", "o">>,
   <<"i", "s">>, <<"i", "t">>, <<"i", "t", "s">>, <<"m", "y">>,
   <<"n", "o">>, <<"n", "o", "t">>, <<"o", "f">>, <<"o", "n">>,
   <<"o", "r">>, <<"o", "u", "r">>, <<"s", "h", "e">>, <<"s", "o">>,
   <<"t", "h", "a", "n">>, <<"t", "h", "a", "t">>, <<"t", "h", "e">>,
   <<"t", "h", "e", "i", "r">>, <<"t", "h", "e", "m">>,
   <<"t", "h", "e", "n">>, <<"t", "h", "e", "r", "e">>,
   <<"t", "h", "e", "s", "e">>, <<"t", "h", "e", "y">>,
   <<"t", "h", "i", "s">>, <<"t", "o">>, <<"u", "p">>, <<"u", "s">>,
   <<"w", "a", "s">>, <<"w", "e">>, <<"w", "e", "r", "e">>,
   <<"w", "h", "a", "t">>, <<"w", "h", "e", "n">>,
   <<"w", "h", "i", "c", "h">>, <<"w", "h", "o">>, <<"w", "i", "l", "l">>,
   <<"w", "i", "t", "h">>, <<"w", "o", "u", "l", "d">>, <<"y", "o", "u">>,
   <<"y", "o", "u", "r">>}

isDigit(c) == c \in {"0", "1", "2", "3", "4", "5", "6", "7", "8", "9"}

\* the characters [\p{L}\p{N}'-] keeps, as far as the alphabets of the model
\* contain them
isWordCharacter(c) == isLetter(c) \/ isDigit(c) \/ c \in {"'", "-"}

\* the end of the run of non-whitespace that starts at index p
RECURSIVE nonWhitespaceEnd(_, _)
nonWhitespaceEnd(s, p) ==
  IF p < Len(s) /\ ~isWhitespace(s[p + 1]) THEN nonWhitespaceEnd(s, p + 1)
  ELSE p

\* s.match(/\S+/g) from index p on: the runs of non-whitespace, in order
RECURSIVE matchWords(_, _)
matchWords(s, p) ==
  IF p >= Len(s) THEN << >>
  ELSE IF isWhitespace(s[p + 1]) THEN matchWords(s, p + 1)
  ELSE LET e == nonWhitespaceEnd(s, p)
       IN <<slice(s, p, e)>> \o matchWords(s, e)

\* w.replace(/[^\p{L}\p{N}'-]/gu, "")
stripPunctuation(w) == SelectSeq(w, isWordCharacter)

cleanWords(rawWords) ==
  LET nonEmpty(w) == Len(w) > 0
  IN SelectSeq([k \in 1..Len(rawWords) |-> stripPunctuation(rawWords[k])],
               nonEmpty)

RECURSIVE totalLength(_, _)
totalLength(words, k) ==
  IF k > Len(words) THEN 0 ELSE Len(words[k]) + totalLength(words, k + 1)

\* Math.round((num / den) * 100), the value in hundredths, for num >= 0
roundHundredths(num, den) == (200 * num + den) \div (2 * den)

\* the loop that keeps the first word of the greatest length
RECURSIVE longestWordFrom(_, _, _)
longestWordFrom(words, k, longest) ==
  IF k > Len(words) THEN longest
  ELSE IF Len(words[k]) > longest.length
    THEN longestWordFrom(words, k + 1,
                         [word |-> words[k], length |-> Len(words[k])])
  ELSE longestWordFrom(words, k + 1, longest)

\* freq.set(lower, (freq.get(lower) ?? 0) + 1) on a Map kept as its entries
\* <<word, count>> in insertion order
freqSet(freq, lower) ==
  IF \E j \in 1..Len(freq) : freq[j][1] = lower
    THEN [j \in 1..Len(freq) |->
            IF freq[j][1] = lower THEN <<lower, freq[j][2] + 1>> ELSE freq[j]]
  ELSE Append(freq, <<lower, 1>>)

\* the loop over the clean words that fills freq, skipping the stop words
RECURSIVE countFrequencies(_, _, _)
countFrequencies(words, k, freq) ==
  IF k > Len(words) THEN freq
  ELSE LET lower == toLowerCase(words[k])
       IN IF lower \in STOP_WORDS THEN countFrequencies(words, k + 1, freq)
          ELSE countFrequencies(words, k + 1, freqSet(freq, lower))

\* one entry put into a list sorted by descending count, behind the entries
\* of the same count: Array.prototype.sort is stable
RECURSIVE insertByCount(_, _)
insertByCount(sorted, entry) ==
  IF sorted = << >> THEN <<entry>>
  ELSE IF sorted[1][2] >= entry[2]
    THEN <<sorted[1]>> \o insertByCount(Tail(sorted), entry)
  ELSE <<entry>> \o sorted

RECURSIVE sortFrom(_, _, _)
sortFrom(entries, k, sorted) ==
  IF k > Len(entries) THEN sorted
  ELSE sortFrom(entries, k + 1, insertByCount(sorted, entries[k]))

\* the entries left in the order of the Map
sortByCountUnsorted(entries) == entries

\* entries.sort((a, b) => b[1] - a[1])
sortByCount(entries) == sortFrom(entries, 1, << >>)

\* entries.slice(0, end)
sliceFromStart(entries, end) ==
  LET to == IF end < 0 THEN Len(entries) + end ELSE end
  IN IF to <= 0 THEN << >>
     ELSE IF to >= Len(entries) THEN entries
     ELSE SubSeq(entries, 1, to)

TextStatistics(avgWord, avgSentence, unique, longest, top) ==
  [avgWordLength |-> avgWord, avgSentenceLength |-> avgSentence,
   uniqueWordCount |-> unique, longestWord |-> longest, topWords |-> top]

NoStatistics == TextStatistics(0, 0, 0, [word |-> << >>, length |-> 0], << >>)

\* the averages are kept in hundredths
analyzeStatistics(t, n) ==
  LET trimmed == trim(t)
      rawWords == matchWords(trimmed, 0)
      wordCount == countWords(trimmed)
      sentenceCount == countSentences(trimmed)
      clean == cleanWords(rawWords)
      avgWordLength ==
        IF Len(clean) > 0
          THEN roundHundredths(totalLength(clean, 1), Len(clean)) ELSE 0
      avgSentenceLength ==
        IF sentenceCount > 0 THEN roundHundredths(wordCount, sentenceCount)
        ELSE 0
      uniqueWords == {toLowerCase(clean[k]) : k \in 1..Len(clean)}
      longestWord ==
        longestWordFrom(clean, 1, [word |-> << >>, length |-> 0])
      freq == countFrequencies(clean, 1, << >>)
      top == sliceFromStart(sortByCount(freq), n)
      topWords == [k \in 1..Len(top) |->
                     [word |-> top[k][1], count |-> top[k][2]]]
  IN IF trimmed = << >> THEN NoStatistics
     ELSE IF Len(rawWords) = 0 THEN NoStatistics
     ELSE TextStatistics(avgWordLength, avgSentenceLength,
                         Cardinality(uniqueWords), longestWord, topWords)

(***************************************************************************)
(* gradeLabel (readability analyzer)                                       *)
(***************************************************************************)
\* Math.round of a number given in tenths: halves round towards +infinity
roundTenths(tenths) == (tenths + 5) \div 10

\* the separator of the labels, " \u2014 " in the source, in ASCII
Dash == " -- "

gradeLabel(gradeTenths) ==
  LET g == roundTenths(gradeTenths)
  IN IF g <= 1 THEN "Grade 1" \o Dash \o "Very easy to read"
     ELSE IF g <= 3 THEN "Grade " \o ToString(g) \o Dash \o "Easy to read"
     ELSE IF g <= 5
       THEN "Grade " \o ToString(g) \o Dash \o "Fairly easy to read"
     ELSE IF g <= 8 THEN "Grade " \o ToString(g) \o Dash \o "Plain language"
     ELSE IF g <= 10
       THEN "Grade " \o ToString(g) \o Dash \o "Fairly difficult to read"
     ELSE IF g <= 12
       THEN "Grade " \o ToString(g) \o Dash \o "Difficult to read"
     ELSE IF g <= 16 THEN "Grade " \o ToString(g) \o Dash \o "College level"
     ELSE "Grade " \o ToString(g) \o Dash \o "Professional/academic"

\* the two grade entries of the ReadabilityResult, from the grades rounded
\* to one decimal (given in tenths)
gradeEntries(fkTenths, clTenths) ==
  [fleschKincaid |-> [grade |-> fkTenths, label |-> gradeLabel(fkTenths)],
   colemanLiau |-> [grade |-> clTenths, label |-> gradeLabel(clTenths)]]

(***************************************************************************)
(* analyzeReadability: the guards before the formulas                      *)
(***************************************************************************)
\* what the call returns ("null" or "result") and the counts the formulas
\* are evaluated with
ReadabilityCounts(returned, wordCount, sentenceCount) ==
  [returned |-> returned, wordCount |-> wordCount,
   sentenceCount |-> sentenceCount]

\* the trim and the counts without the guards that return null
readabilityCountsUnguarded(t) ==
  LET trimmed == trim(t)
  IN ReadabilityCounts("result", countWords(trimmed), countSentences(trimmed))

readabilityCounts(t) ==
  LET trimmed == trim(t)
      wordCount == countWords(trimmed)
      sentenceCount == countSentences(trimmed)
  IN IF trimmed = << >> THEN ReadabilityCounts("null", 0, 0)
     ELSE IF wordCount = 0 \/ sentenceCount = 0
       THEN ReadabilityCounts("null", wordCount, sentenceCount)
     ELSE ReadabilityCounts("result", wordCount, sentenceCount)

(***************************************************************************)
(* db.ts: the cached connection                                            *)
(*                                                                         *)
(* dbPromise is "null" before the first openDB and after resetDB, "open"   *)
(* while the cached connection is open and "closed" once close() was       *)
(* called on it.  The object stores outlive the connections.               *)
(***************************************************************************)
\* openDB(): creates and caches a connection only when none is cached
openDB(cached) == IF cached = "null" THEN "open" ELSE cached

\* db.close() on the connection the call got from openDB
close(connection) == "closed"

\* a request on a connection: IndexedDB refuses a transaction on a
\* connection whose close() was called (InvalidStateError)
accepts(connection) == connection = "open"

\* how a call settled: fulfilled with a value or rejected with an error
Fulfilled(op, args, value) ==
  [op |-> op, args |-> args, settled |-> "fulfilled", value |-> value]
Rejected(op, args) ==
  [op |-> op, args |-> args, settled |-> "rejected",
   value |-> "InvalidStateError"]
NoCall == [op |-> "none", args |-> << >>, settled |-> "none", value |-> << >>]

\* the body of every CRUD function: await openDB(), the requests inside
\* try, db.close() inside finally.  request is <<the value returned, the
\* store after the requests>>; the result is the settled call, the store
\* and the cached connection after the call.
withConnection(cached, op, args, store, request) ==
  LET db == openDB(cached)
  IN IF accepts(db)
       THEN [call |-> Fulfilled(op, args, request[1]), store |-> request[2],
             dbPromise |-> close(db)]
     ELSE [call |-> Rejected(op, args), store |-> store,
           dbPromise |-> close(db)]

(***************************************************************************)
(* documents.ts                                                            *)
(***************************************************************************)
\* the ids in key order
DocumentIds == <<"d1", "d2">>
keyRank(id) == CHOOSE k \in 1..Len(DocumentIds) : DocumentIds[k] = id

StoredDocument(id, content, updatedAt) ==
  [id |-> id, content |-> content, updatedAt |-> updatedAt]

\* db.put(store, record): inserts, or replaces the record of the same id
put(store, record) == {r \in store : r.id # record.id} \cup {record}

\* db.delete(store, id)
delete(store, id) == {r \in store : r.id # id}

\* db.get(store, id): the set of the record found, empty for undefined
get(store, id) == {r \in store : r.id = id}

\* the documents in the order of the index by-updated: by updatedAt, then
\* by primary key
RECURSIVE byUpdated(_)
byUpdated(store) ==
  IF store = {} THEN << >>
  ELSE LET first ==
             CHOOSE r \in store :
               \A o \in store :
                 \/ r.updatedAt < o.updatedAt
                 \/ /\ r.updatedAt = o.updatedAt
                    /\ keyRank(r.id) <= keyRank(o.id)
       IN <<first>> \o byUpdated(store \ {first})

reverse(s) == [k \in 1..Len(s) |-> s[Len(s) + 1 - k]]

getAllDocuments(cached, store) ==
  withConnection(cached, "getAllDocuments", << >>, store,
                 <<reverse(byUpdated(store)), store>>)

getDocument(cached, store, id) ==
  withConnection(cached, "getDocument", id, store, <<get(store, id), store>>)

saveDocument(cached, store, doc) ==
  withConnection(cached, "saveDocument", doc, store, <<{}, put(store, doc)>>)

deleteDocument(cached, store, id) ==
  withConnection(cached, "deleteDocument", id, store,
                 <<{}, delete(store, id)>>)

(***************************************************************************)
(* versions.ts                                                             *)
(***************************************************************************)
StoredVersion(id, documentId, type, createdAt) ==
  [id |-> id, documentId |-> documentId, type |-> type,
   createdAt |-> createdAt]

\* db.getAllFromIndex("versions", "by-document", documentId): the versions
\* of the document in the order of their primary keys, scanned from key id
RECURSIVE byDocument(_, _, _, _)
byDocument(store, documentId, id, maxId) ==
  IF id > maxId THEN << >>
  ELSE LET found == {v \in store : v.id = id /\ v.documentId = documentId}
       IN (IF found = {} THEN << >> ELSE <<CHOOSE v \in found : TRUE>>)
            \o byDocument(store, documentId, id + 1, maxId)

\* one version put into a list sorted by ascending createdAt, behind the
\* versions created at the same time: Array.prototype.sort is stable
RECURSIVE insertOldestFirst(_, _)
insertOldestFirst(sorted, v) ==
  IF sorted = << >> THEN <<v>>
  ELSE IF sorted[1].createdAt <= v.createdAt
    THEN <<sorted[1]>> \o insertOldestFirst(Tail(sorted), v)
  ELSE <<v>> \o sorted

\* the same with descending createdAt
RECURSIVE insertNewestFirst(_, _)
insertNewestFirst(sorted, v) ==
  IF sorted = << >> THEN <<v>>
  ELSE IF sorted[1].createdAt >= v.createdAt
    THEN <<sorted[1]>> \o insertNewestFirst(Tail(sorted), v)
  ELSE <<v>> \o sorted

RECURSIVE sortOldestFirst(_, _, _)
sortOldestFirst(all, k, sorted) ==
  IF k > Len(all) THEN sorted
  ELSE sortOldestFirst(all, k + 1, insertOldestFirst(sorted, all[k]))

RECURSIVE sortNewestFirst(_, _, _)
sortNewestFirst(all, k, sorted) ==
  IF k > Len(all) THEN sorted
  ELSE sortNewestFirst(all, k + 1, insertNewestFirst(sorted, all[k]))

\* the loop of store.delete over autoVersions[0 .. toDelete - 1]
RECURSIVE deleteFirst(_, _, _, _)
deleteFirst(store, autoVersions, i, toDelete) ==
  IF i >= toDelete THEN store
  ELSE deleteFirst(delete(store, autoVersions[i + 1].id), autoVersions,
                   i + 1, toDelete)

\* the requests of pruneAutoVersions with the newest versions deleted first
prunedNewestFirst(store, documentId, maxCount, maxId) ==
  LET all == byDocument(store, documentId, 1, maxId)
      isAuto(v) == v.type = "auto"
      autoVersions == sortNewestFirst(SelectSeq(all, isAuto), 1, << >>)
      toDelete == Len(autoVersions) - maxCount
  IN IF toDelete <= 0 THEN store
     ELSE deleteFirst(store, autoVersions, 0, toDelete)

\* the requests of pruneAutoVersions: the store they leave
pruned(store, documentId, maxCount, maxId) ==
  LET all == byDocument(store, documentId, 1, maxId)
      isAuto(v) == v.type = "auto"
      autoVersions == sortOldestFirst(SelectSeq(all, isAuto), 1, << >>)
      toDelete == Len(autoVersions) - maxCount
  IN IF toDelete <= 0 THEN store
     ELSE deleteFirst(store, autoVersions, 0, toDelete)

\* the ids the call passed to store.delete
deletedIds(before, after) == {v.id : v \in before} \ {v.id : v \in after}

getVersions(cached, store, documentId, maxId) ==
  withConnection(cached, "getVersions", documentId, store,
    <<sortNewestFirst(byDocument(store, documentId, 1, maxId), 1, << >>),
      store>>)

saveVersion(cached, store, version) ==
  withConnection(cached, "saveVersion", version, store,
                 <<{}, put(store, version)>>)

deleteVersion(cached, store, id) ==
  withConnection(cached, "deleteVersion", id, store,
                 <<{}, delete(store, id)>>)

pruneAutoVersions(cached, store, documentId, maxCount, maxId) ==
  LET settled ==
        withConnection(cached, "pruneAutoVersions",
                       [documentId |-> documentId, maxCount |-> maxCount],
                       store,
                       <<{}, pruned(store, documentId, maxCount, maxId)>>)
  IN [settled EXCEPT
        !.call = @ @@ [deleted |-> deletedIds(store, settled.store)]]

\* resetDB(): closes the cached connection, if any, and forgets it
resetDB(cached) == "null"

(***************************************************************************)
(* settings.ts: JavaScript values and JSON                                 *)
(*                                                                         *)
(* A JavaScript value is a record of its type and its value.  An object is *)
(* the sequence of its <<name, value>> entries in insertion order, an      *)
(* array the sequence of its items.                                        *)
(***************************************************************************)
Undefined == [type |-> "undefined", value |-> "undefined"]
Null == [type |-> "null", value |-> "null"]
Boolean(b) == [type |-> "boolean", value |-> b]
Number(n) == [type |-> "number", value |-> n]
String(s) == [type |-> "string", value |-> s]
Object(entries) == [type |-> "object", value |-> entries]
Array(items) == [type |-> "array", value |-> items]

\* typeof v === "object"
typeofObject(v) == v.type \in {"object", "array", "null"}

\* the truthiness of the values of the model
truthy(v) ==
  CASE v.type \in {"undefined", "null"} -> FALSE
    [] v.type = "boolean" -> v.value
    [] v.type = "number" -> v.value # 0
    [] v.type = "string" -> v.value # ""
    [] OTHER -> TRUE

\* the own enumerable properties { ...v } copies
spread(v) ==
  CASE v.type = "object" -> v.value
    [] v.type = "array" ->
         [k \in 1..Len(v.value) |-> <<ToString(k - 1), v.value[k]>>]
    [] OTHER -> << >>

\* o[name]
getProperty(o, name) ==
  LET entries == spread(o)
  IN IF \E k \in 1..Len(entries) : entries[k][1] = name
       THEN entries[CHOOSE k \in 1..Len(entries) : entries[k][1] = name][2]
     ELSE Undefined

\* { ...entries, [name]: v }: an own property keeps its place
setProperty(entries, name, v) ==
  IF \E k \in 1..Len(entries) : entries[k][1] = name
    THEN [k \in 1..Len(entries) |->
            IF entries[k][1] = name THEN <<name, v>> ELSE entries[k]]
  ELSE Append(entries, <<name, v>>)

RECURSIVE stringify(_)
RECURSIVE stringifyEntries(_, _)
RECURSIVE stringifyItems(_, _)

\* the members of an object text from entry k on
stringifyEntries(entries, k) ==
  IF k > Len(entries) THEN ""
  ELSE (IF k > 1 THEN "," ELSE "")
         \o "\"" \o entries[k][1] \o "\":" \o stringify(entries[k][2])
         \o stringifyEntries(entries, k + 1)

stringifyItems(items, k) ==
  IF k > Len(items) THEN ""
  ELSE (IF k > 1 THEN "," ELSE "") \o stringify(items[k])
         \o stringifyItems(items, k + 1)

\* JSON.stringify(v)
stringify(v) ==
  CASE v.type = "null" -> "null"
    [] v.type = "boolean" -> IF v.value THEN "true" ELSE "false"
    [] v.type = "number" -> ToString(v.value)
    [] v.type = "string" -> "\"" \o v.value \o "\""
    [] v.type = "array" -> "[" \o stringifyItems(v.value, 1) \o "]"
    [] v.type = "object" -> "{" \o stringifyEntries(v.value, 1) \o "}"

\* the values whose JSON texts a storage of the model can hold
Primitives ==
  {Null, Boolean(TRUE), Boolean(FALSE)}
    \cup {Number(n) : n \in {47, 48, 220, 320, 321}}
    \cup {String(s) :
            s \in {"dark", "light", "blue", "details", "limits", "history"}}

\* the objects with at most the two properties first and second
ObjectsOver(first, second) ==
  {Object(<< >>)}
    \cup {Object(<< <<n, v>> >>) : n \in {first, second}, v \in Primitives}
    \cup {Object(<< <<first, v>>, <<second, w>> >>) :
            v \in Primitives, w \in Primitives}
    \cup {Object(<< <<second, v>>, <<first, w>> >>) :
            v \in Primitives, w \in Primitives}

JsonValues ==
  Primitives \cup {Array(<< >>)} \cup ObjectsOver("collapsed", "width")
    \cup ObjectsOver("open", "tab")

JsonTexts == {<<stringify(v), v>> : v \in JsonValues}

ParseTable ==
  [raw \in {p[1] : p \in JsonTexts} |->
     (CHOOSE p \in JsonTexts : p[1] = raw)[2]]

\* JSON.parse(raw): the value of a JSON text; any other text is a
\* SyntaxError
parse(raw) ==
  IF raw \in DOMAIN ParseTable THEN Return(ParseTable[raw])
  ELSE Throw("SyntaxError")

(***************************************************************************)
(* settings.ts: loadSettings and saveSetting                               *)
(*                                                                         *)
(* A storage maps each key to the sequence of its item: empty when         *)
(* getItem returns null, else the one raw text.                            *)
(***************************************************************************)
SettingNames ==
  {"theme", "sidebarCollapsed", "sidebarWidth", "bottomPanelOpen",
   "bottomPanelTab", "focusMode", "charsIncludeSpaces"}

defaultSettings ==
  [theme |-> String("dark"), sidebarCollapsed |-> Boolean(FALSE),
   sidebarWidth |-> Number(220), bottomPanelOpen |-> Boolean(TRUE),
   bottomPanelTab |-> String("details"), focusMode |-> Boolean(FALSE),
   charsIncludeSpaces |-> Boolean(TRUE)]

keyMap ==
  [theme |-> "count-theme", sidebarCollapsed |-> "count-sidebar",
   sidebarWidth |-> "count-sidebar", bottomPanelOpen |-> "count-bottom-panel",
   bottomPanelTab |-> "count-bottom-panel", focusMode |-> "count-focus-mode",
   charsIncludeSpaces |-> "count-chars-spaces"]

StorageKeys == {keyMap[name] : name \in SettingNames}

MinSidebarWidth == 48
MaxSidebarWidth == 320

validators(name, v) ==
  CASE name = "theme" ->
         v.type = "string" /\ v.value \in {"dark", "light"}
    [] name = "sidebarWidth" ->
         /\ v.type = "number"
         /\ v.value >= MinSidebarWidth
         /\ v.value <= MaxSidebarWidth
    [] name = "bottomPanelTab" ->
         v.type = "string" /\ v.value \in {"details", "limits", "history"}
    [] OTHER -> v.type = "boolean"

readKey(store, key) ==
  IF store[key] = << >> THEN Undefined
  ELSE LET parsed == parse(store[key][1])
       IN IF parsed.kind = "throw" THEN Undefined ELSE parsed.value

\* settings[name] = v if the validator of name accepts v
validated(settings, name, v) ==
  IF validators(name, v) THEN [settings EXCEPT ![name] = v] ELSE settings

\* the two fields of a compound key, read only from an object
compound(settings, stored, first, firstName, second, secondName) ==
  IF truthy(stored) /\ typeofObject(stored)
    THEN validated(validated(settings, first, getProperty(stored, firstName)),
                   second, getProperty(stored, secondName))
  ELSE settings

\* loadSettings that takes both fields of a compound key or none
loadSettingsAllOrNothing(store) ==
  LET both(settings, stored, first, firstName, second, secondName) ==
        IF /\ truthy(stored) /\ typeofObject(stored)
           /\ validators(first, getProperty(stored, firstName))
           /\ validators(second, getProperty(stored, secondName))
          THEN [settings EXCEPT ![first] = getProperty(stored, firstName),
                                ![second] = getProperty(stored, secondName)]
        ELSE settings
      theme ==
        validated(defaultSettings, "theme", readKey(store, keyMap.theme))
      sidebar ==
        both(theme, readKey(store, keyMap.sidebarCollapsed),
             "sidebarCollapsed", "collapsed", "sidebarWidth", "width")
      bottom ==
        both(sidebar, readKey(store, keyMap.bottomPanelOpen),
             "bottomPanelOpen", "open", "bottomPanelTab", "tab")
      focus ==
        validated(bottom, "focusMode", readKey(store, keyMap.focusMode))
  IN validated(focus, "charsIncludeSpaces",
               readKey(store, keyMap.charsIncludeSpaces))

loadSettings(store) ==
  LET theme ==
        validated(defaultSettings, "theme", readKey(store, keyMap.theme))
      sidebar ==
        compound(theme, readKey(store, keyMap.sidebarCollapsed),
                 "sidebarCollapsed", "collapsed", "sidebarWidth", "width")
      bottom ==
        compound(sidebar, readKey(store, keyMap.bottomPanelOpen),
                 "bottomPanelOpen", "open", "bottomPanelTab", "tab")
      focus ==
        validated(bottom, "focusMode", readKey(store, keyMap.focusMode))
  IN validated(focus, "charsIncludeSpaces",
               readKey(store, keyMap.charsIncludeSpaces))

\* store.setItem(key, raw)
setItem(store, key, raw) == [store EXCEPT ![key] = <<raw>>]

\* the property a field of a compound key is stored under
propertyName ==
  [sidebarCollapsed |-> "collapsed", sidebarWidth |-> "width",
   bottomPanelOpen |-> "open", bottomPanelTab |-> "tab"]

\* the read-modify-write of a compound key
merged(store, name, v) ==
  LET read == readKey(store, keyMap[name])
      current == IF read.type \in {"undefined", "null"} THEN Object(<< >>)
                 ELSE read
      obj == IF typeofObject(current) /\ current.type # "null" THEN current
             ELSE Object(<< >>)
  IN Object(setProperty(spread(obj), propertyName[name], v))

\* saveSetting that writes a compound key without reading it first
saveSettingOverwriting(store, name, v) ==
  IF name \in DOMAIN propertyName
    THEN setItem(store, keyMap[name],
                 stringify(Object(<< <<propertyName[name], v>> >>)))
  ELSE setItem(store, keyMap[name], stringify(v))

saveSetting(store, name, v) ==
  IF name \in DOMAIN propertyName
    THEN setItem(store, keyMap[name], stringify(merged(store, name, v)))
  ELSE setItem(store, keyMap[name], stringify(v))

(***************************************************************************)
(* The theme store (counter.ts:244-339)                                    *)
(*                                                                         *)
(* system is "light" or "dark" when window.matchMedia answers the query    *)
(* (prefers-color-scheme: light), "unavailable" when there is no           *)
(* matchMedia.                                                             *)
(***************************************************************************)
Theme == {"dark", "light"}

\* the key the theme is stored under
THEME_STORAGE_KEY == keyMap.theme

getSystemTheme(preference) == IF preference = "light" THEN "light" ELSE "dark"

\* persisted !== null ? settings.theme : getSystemTheme()
resolveInitialTheme(store, preference) ==
  LET settings == loadSettings(store)
      persisted == store[THEME_STORAGE_KEY]
  IN IF persisted # << >> THEN settings.theme.value
     ELSE getSystemTheme(preference)

\* the value of the data-theme attribute after applyTheme(theme)
applyTheme(theme) == theme

ThemeState(theme, attribute, store) ==
  [currentTheme |-> theme, dataTheme |-> attribute, storage |-> store]

\* initTheme(storage)
initTheme(store, preference) ==
  LET theme == resolveInitialTheme(store, preference)
  IN ThemeState(theme, applyTheme(theme), store)

\* the toggle that leaves the storage as it was
toggleThemeUnsaved(state) ==
  LET next == IF state.currentTheme = "dark" THEN "light" ELSE "dark"
  IN ThemeState(next, applyTheme(next), state.storage)

\* toggleTheme of useTheme
toggleTheme(state) ==
  LET next == IF state.currentTheme = "dark" THEN "light" ELSE "dark"
  IN ThemeState(next, applyTheme(next),
                saveSetting(state.storage, "theme", String(next)))

\* the theme useTheme returns: getSnapshot() of the theme store
useTheme(state) == state.currentTheme

(***************************************************************************)
(* App.tsx: the toast store                                                *)
(*                                                                         *)
(* A timer set with setTimeout is a record of the id its callback removes  *)
(* and the time it is due at.  Time passes in AdvanceTimersByTime, which   *)
(* runs the callbacks of the timers that become due, earliest first.       *)
(***************************************************************************)
ToastEntry(id, message, duration) ==
  [id |-> id, message |-> message, duration |-> duration]

\* options?.duration ?? 3500
DefaultDuration == 3500

\* getSnapshot(): what ToastContainer renders, one ToastItem per entry
getSnapshot(store) == store.toasts

\* the module-level state of the store and the timers of the runtime
ToastStore(next, entries, map, queue) ==
  [nextId |-> next, toasts |-> entries, timers |-> map, pending |-> queue]

\* the same with the timer left running
removeToastTimerKept(store, id) ==
  [store EXCEPT
     !.toasts = SelectSeq(store.toasts, LAMBDA t : t.id # id)]

\* removeToast(id)
removeToast(store, id) ==
  [store EXCEPT
     !.pending = IF id \in store.timers
                   THEN {p \in store.pending : p.id # id}
                   ELSE store.pending,
     !.timers = store.timers \ {id},
     !.toasts = SelectSeq(store.toasts, LAMBDA t : t.id # id)]

\* clearToasts()
clearToasts(store) ==
  [store EXCEPT !.pending = {p \in store.pending : p.id \notin store.timers},
                !.timers = {},
                !.toasts = << >>]

\* toast(message, options) called at time t; duration is options?.duration
toast(store, message, duration, t) ==
  LET d == IF duration = Undefined THEN DefaultDuration ELSE duration.value
      id == store.nextId
  IN [store EXCEPT
        !.nextId = id + 1,
        !.toasts = Append(store.toasts, ToastEntry(id, message, d)),
        !.pending = store.pending \cup {[id |-> id, due |-> t + d]},
        !.timers = store.timers \cup {id}]

\* the callbacks of the timers due by time t, run earliest first (timers due
\* at the same time in the order they were set)
RECURSIVE runTimers(_, _)
runTimers(store, t) ==
  LET due == {p \in store.pending : p.due <= t}
  IN IF due = {} THEN store
     ELSE LET first == CHOOSE p \in due :
                         \A q \in due : p.due < q.due
                                          \/ (p.due = q.due /\ p.id <= q.id)
          IN runTimers(removeToast([store EXCEPT
                                      !.pending = store.pending \ {first}],
                                   first.id),
                       t)

(***************************************************************************)
(* The loops of countSentences, detectWordOverflow and                     *)
(* detectParagraphOverflow, one iteration of one loop at a time.  A frame  *)
(* holds the position of the call (at) and its locals: the scan index i,   *)
(* the counter n (sentenceCount, wordCount, paraCount), lineEndCount and   *)
(* lastBoundaryEnd.  The fields outer and inner remember the index at      *)
(* which the running iteration of the outer and of the enclosing inner     *)
(* loop began, and steps counts the steps taken.                           *)
(***************************************************************************)
Frame(fn, at, i, n) ==
  [fn |-> fn, at |-> at, i |-> i, n |-> n, outer |-> 0, inner |-> 0,
   lineEndCount |-> 0, lastBoundaryEnd |-> 0, steps |-> 0, result |-> "none"]

\* counter.ts:139-207, on the trimmed text t
sentenceIteration(t, f) ==
  LET i == f.i
      here(c) == i < Len(t) /\ c
  IN CASE f.at = "while" ->
            IF i >= Len(t) THEN [f EXCEPT !.at = "return"]
            ELSE IF t[i + 1] = "."
              THEN IF i + 1 < Len(t) /\ t[i + 2] = "."
                     THEN [f EXCEPT !.at = "dots", !.outer = i]
                   ELSE IF periodIsSkipped(t, i)
                     THEN [f EXCEPT !.i = i + 1]
                   ELSE [f EXCEPT !.at = "terminators", !.outer = i,
                                  !.i = i + 1, !.n = f.n + 1]
            ELSE IF t[i + 1] = "!" \/ t[i + 1] = "?"
              THEN [f EXCEPT !.at = "marks", !.outer = i,
                             !.i = i + 1, !.n = f.n + 1]
            ELSE [f EXCEPT !.i = i + 1]
        [] f.at = "dots" ->
            IF here(t[i + 1] = ".") THEN [f EXCEPT !.i = i + 1]
            ELSE [f EXCEPT !.at = "spaceAfterDots"]
        [] f.at = "spaceAfterDots" ->
            IF here(isWhitespace(t[i + 1])) THEN [f EXCEPT !.i = i + 1]
            ELSE IF i < Len(t)
              THEN [f EXCEPT !.at = "while", !.n = f.n + 1,
                             !.lastBoundaryEnd = i]
            ELSE [f EXCEPT !.at = "while"]
        [] f.at = "terminators" ->
            IF here(isWhitespace(t[i + 1]) \/ t[i + 1] \in {".", "!", "?"})
              THEN [f EXCEPT !.i = i + 1]
              ELSE [f EXCEPT !.at = "while", !.lastBoundaryEnd = i]
        [] f.at = "marks" ->
            IF here(t[i + 1] \in {"!", "?"}) THEN [f EXCEPT !.i = i + 1]
            ELSE [f EXCEPT !.at = "spaceAfterMarks"]
        [] f.at = "spaceAfterMarks" ->
            IF here(isWhitespace(t[i + 1])) THEN [f EXCEPT !.i = i + 1]
            ELSE [f EXCEPT !.at = "while", !.lastBoundaryEnd = i]

\* the same with the word counted and its characters left unread
wordIterationWordUnread(t, limit, f) ==
  LET i == f.i
      here(c) == i < Len(t) /\ c
  IN CASE f.at = "while" ->
            IF i < Len(t) /\ f.n < limit
              THEN [f EXCEPT !.at = "skipSpace", !.outer = i]
              ELSE [f EXCEPT !.at = "spaceAfterWords"]
        [] f.at = "skipSpace" ->
            IF here(isWhitespace(t[i + 1])) THEN [f EXCEPT !.i = i + 1]
            ELSE IF i >= Len(t) THEN [f EXCEPT !.at = "spaceAfterWords"]
            ELSE [f EXCEPT !.at = "while", !.n = f.n + 1]
        [] f.at = "spaceAfterWords" ->
            IF here(isWhitespace(t[i + 1])) THEN [f EXCEPT !.i = i + 1]
            ELSE [f EXCEPT !.at = "return"]

\* overflow.ts:71-88
wordIteration(t, limit, f) ==
  LET i == f.i
      here(c) == i < Len(t) /\ c
  IN CASE f.at = "while" ->
            IF i < Len(t) /\ f.n < limit
              THEN [f EXCEPT !.at = "skipSpace", !.outer = i]
              ELSE [f EXCEPT !.at = "spaceAfterWords"]
        [] f.at = "skipSpace" ->
            IF here(isWhitespace(t[i + 1])) THEN [f EXCEPT !.i = i + 1]
            ELSE IF i >= Len(t) THEN [f EXCEPT !.at = "spaceAfterWords"]
            ELSE [f EXCEPT !.at = "skipWord", !.n = f.n + 1]
        [] f.at = "skipWord" ->
            IF here(~isWhitespace(t[i + 1])) THEN [f EXCEPT !.i = i + 1]
            ELSE [f EXCEPT !.at = "while"]
        [] f.at = "spaceAfterWords" ->
            IF here(isWhitespace(t[i + 1])) THEN [f EXCEPT !.i = i + 1]
            ELSE [f EXCEPT !.at = "return"]

\* the characters of the line ending at i: "\r\n" is one line ending
lineEndLength(t, i) ==
  IF t[i + 1] = CR /\ i + 1 < Len(t) /\ t[i + 2] = LF THEN 2 ELSE 1

\* overflow.ts:136-181
paragraphIteration(t, limit, f) ==
  LET i == f.i
  IN CASE f.at = "while" ->
            IF i >= Len(t) THEN [f EXCEPT !.at = "return", !.i = Len(t)]
            ELSE IF isLineEnd(t[i + 1]) THEN [f EXCEPT !.i = i + 1]
            ELSE IF f.n + 1 > limit
              THEN [f EXCEPT !.at = "return", !.n = f.n + 1]
            ELSE [f EXCEPT !.at = "paragraph", !.outer = i, !.n = f.n + 1]
        [] f.at = "paragraph" ->
            IF i >= Len(t) THEN [f EXCEPT !.at = "while"]
            ELSE IF isLineEnd(t[i + 1])
              THEN [f EXCEPT !.at = "lineEnds", !.inner = i,
                             !.lineEndCount = 0]
            ELSE [f EXCEPT !.i = i + 1]
        [] f.at = "lineEnds" ->
            IF i < Len(t) /\ isLineEnd(t[i + 1])
              THEN [f EXCEPT !.i = i + lineEndLength(t, i),
                             !.lineEndCount = f.lineEndCount + 1]
            ELSE IF f.lineEndCount >= 2 THEN [f EXCEPT !.at = "while"]
            ELSE [f EXCEPT !.at = "paragraph"]

\* the text a call scans
scanned(fn, t) == IF fn = "countSentences" THEN trim(t) ELSE t

\* one step of the running call
iteration(t, limit, f) ==
  LET g == CASE f.fn = "countSentences" -> sentenceIteration(scanned(f.fn, t), f)
             [] f.fn = "detectWordOverflow" -> wordIteration(t, limit, f)
             [] f.fn = "detectParagraphOverflow" ->
                  paragraphIteration(t, limit, f)
  IN [g EXCEPT !.steps = f.steps + 1]

\* the code before the loop: the frame the loop starts with or, for an
\* early return, the frame of the returned call
enter(fn, t, limit) ==
  LET returned(value) == [Frame(fn, "returned", 0, 0) EXCEPT !.result = value]
  IN CASE fn = "countSentences" ->
            IF trim(t) = << >> \/ matchNonWhitespaceRuns(trim(t)) = 0
              THEN returned(0)
              ELSE Frame(fn, "while", 0, 0)
       [] fn = "detectWordOverflow" ->
            IF countWords(t) <= limit
              THEN returned(OverflowResult(FALSE, 0, Len(t)))
            ELSE IF limit = 0
              THEN returned(OverflowResult(TRUE, countWords(t), 0))
            ELSE Frame(fn, "while", 0, 0)
       [] fn = "detectParagraphOverflow" ->
            IF countParagraphs(t) <= limit
              THEN returned(OverflowResult(FALSE, 0, Len(t)))
            ELSE IF limit = 0
              THEN returned(OverflowResult(TRUE, countParagraphs(t), 0))
            ELSE Frame(fn, "while", 0, 0)

\* the code after the loop: the value the call returns
leave(t, limit, f) ==
  CASE f.fn = "countSentences" ->
         sentencesAfterScan(scanned(f.fn, t),
                            ScanState(f.i, f.n, f.lastBoundaryEnd))
    [] f.fn = "detectWordOverflow" ->
         OverflowResult(TRUE, countWords(t) - limit, f.i)
    [] f.fn = "detectParagraphOverflow" ->
         OverflowResult(TRUE, countParagraphs(t) - limit, f.i)

(***************************************************************************)
(* State machines.  Each specification draws the arguments of one          *)
(* component of the engine and applies the component to them; the          *)
(* variables of the other components stay idle.                            *)
(***************************************************************************)
NoOverflowResult == OverflowResult(FALSE, 0, 0)
NoCounts ==
  [words |-> 0, characters |-> 0, charactersNoSpaces |-> 0,
   paragraphs |-> 0, sentences |-> 0]
NoGrades ==
  [fleschKincaid |-> [grade |-> 0, label |-> ""],
   colemanLiau |-> [grade |-> 0, label |-> ""]]

IdleOverflow == limitType = "words" /\ limitValue = 0 /\ overflow = NoOverflowResult
IdleCounts == counts = NoCounts
IdleReadingTime == wpm = DefaultWpm /\ readings = << >>
IdleReadability == readability = NoGrades
NoAnalysis == ReadabilityCounts("none", 0, 0)
IdleAnalysis == analysis = NoAnalysis
IdleStatistics == topN = 0 /\ statistics = NoStatistics
IdleScan == scan = ScanState(0, 0, 0) /\ sentences = 0
IdleDb ==
  /\ dbPromise = "null" /\ documents = {} /\ versions = {}
  /\ lastCall = NoCall /\ latest = << >>
IdleSettings == storage = << >> /\ lastLoad = << >> /\ saved = << >>
NoFrame == [fn |-> "none"]
IdleLoops == frame = NoFrame
IdleToasts ==
  /\ nextId = 0 /\ toasts = << >> /\ timers = {} /\ pending = {} /\ now = 0
  /\ created = << >> /\ clicked = {} /\ cleared = {}
IdleTheme ==
  /\ currentTheme = "dark" /\ dataTheme = "none" /\ system = "dark"
  /\ lastToggle = "none"
IdleApp == IdleLoops /\ IdleToasts /\ IdleTheme
IdleRest ==
  IdleAnalysis /\ IdleStatistics /\ IdleScan /\ IdleDb /\ IdleSettings /\ IdleApp

\* ---- the overflow detector ----
OverflowAlphabet == {"a", " ", LF, CR}

InitOverflow ==
  /\ pc = "ready"
  /\ text \in TextsOver(OverflowAlphabet, MaxLen)
  /\ limitType \in LimitType
  /\ limitValue \in (0 - MaxNegLimit)..MaxLimit
  /\ overflow = NoOverflowResult
  /\ IdleCounts /\ IdleReadingTime /\ IdleReadability /\ IdleRest

InitParagraphOverflow ==
  /\ pc = "ready"
  /\ text \in TextsOver(OverflowAlphabet, MaxParaLen)
  /\ limitType = "paragraphs"
  /\ limitValue \in 1..MaxLimit
  /\ overflow = NoOverflowResult
  /\ IdleCounts /\ IdleReadingTime /\ IdleReadability /\ IdleRest

DetectOverflow ==
  /\ pc = "ready"
  /\ pc' = "done"
  /\ overflow' = detectOverflow(text, limitType, limitValue)
  /\ UNCHANGED <<text, limitType, limitValue, counts, wpm, readings,
                 readability, analysis, statisticsVars, scanVars, dbVars,
                 settingsVars, appVars>>

NextOverflow == DetectOverflow

SpecOverflow == InitOverflow /\ [][NextOverflow]_vars

SpecParagraphOverflow == InitParagraphOverflow /\ [][NextOverflow]_vars

\* ---- the counter ----
SentenceAlphabet == {"D", "r", ".", "?", "!", " "}

InitCounter ==
  /\ pc = "ready"
  /\ text \in TextsOver(SentenceAlphabet, MaxSentenceLen)
  /\ counts = NoCounts
  /\ IdleOverflow /\ IdleReadingTime /\ IdleReadability /\ IdleRest

Count ==
  /\ pc = "ready"
  /\ pc' = "done"
  /\ counts' = count(text)
  /\ UNCHANGED <<text, limitType, limitValue, overflow, wpm, readings,
                 readability, analysis, statisticsVars, scanVars, dbVars,
                 settingsVars, appVars>>

NextCounter == Count

SpecCounter == InitCounter /\ [][NextCounter]_vars

\* ---- the reading-time estimator ----
\* The rate is fixed for a behaviour; the estimator is called again and
\* again with any word count, and the last two calls are kept.
InitReadingTime ==
  /\ pc = "ready"
  /\ text = << >>
  /\ wpm \in ((0 - MaxNegWpm)..MaxWpm) \cup {DefaultWpm}
  /\ readings = << >>
  /\ IdleOverflow /\ IdleCounts /\ IdleReadability /\ IdleRest

EstimateReadingTime(wordCount) ==
  LET call == [wordCount |-> wordCount,
               result |-> estimateReadingTime(wordCount, wpm)]
  IN /\ readings' = IF readings = << >> THEN <<call>>
                    ELSE <<readings[Len(readings)], call>>
     /\ UNCHANGED <<pc, text, limitType, limitValue, overflow, counts, wpm,
                    readability, analysis, statisticsVars, scanVars, dbVars,
                    settingsVars, appVars>>

\* small word counts, and word counts around the steps of the default rate
WordCounts ==
  ((0 - MaxNegWords)..MaxWords) \cup {62, 63, 250, 251, 260, 500, 750}

NextReadingTime == \E wordCount \in WordCounts : EstimateReadingTime(wordCount)

SpecReadingTime == InitReadingTime /\ [][NextReadingTime]_vars

\* ---- the grade labels of the readability analyzer ----
GradeTenths == (0 - MaxNegGradeTenths)..MaxGradeTenths

ReadabilityAlphabet == {"D", ".", "?", " "}

InitReadability ==
  /\ pc = "ready"
  /\ text \in TextsOver(ReadabilityAlphabet, MaxReadabilityLen)
  /\ readability = NoGrades
  /\ analysis = NoAnalysis
  /\ IdleOverflow /\ IdleCounts /\ IdleReadingTime
  /\ IdleStatistics /\ IdleScan /\ IdleDb /\ IdleSettings /\ IdleApp

AnalyzeReadability(fkRounded, clRounded) ==
  /\ pc = "ready"
  /\ pc' = "done"
  /\ analysis' = readabilityCounts(text)
  /\ readability' = IF analysis'.returned = "null" THEN NoGrades
                    ELSE gradeEntries(fkRounded, clRounded)
  /\ UNCHANGED <<text, limitType, limitValue, overflow, counts, wpm,
                 readings, statisticsVars, scanVars, dbVars, settingsVars, appVars>>

\* The grades come from the counts of the text through formulas of imported
\* packages; here the Flesch-Kincaid grade is any grade of the range and the
\* Coleman-Liau grade lies below it, at it or above it.
NextReadability ==
  \E fkRounded \in GradeTenths :
    \E clRounded \in {fkRounded - 30, fkRounded, fkRounded + 17} :
      AnalyzeReadability(fkRounded, clRounded)

SpecReadability == InitReadability /\ [][NextReadability]_vars

\* ---- the text statistics ----
StatisticsAlphabet == {"a", "b", "B", "c", ".", " "}

InitStatistics ==
  /\ pc = "ready"
  /\ text \in TextsOver(StatisticsAlphabet, MaxStatisticsLen)
  /\ topN \in 0..MaxTopN
  /\ statistics = NoStatistics
  /\ IdleOverflow /\ IdleCounts /\ IdleReadingTime /\ IdleReadability
  /\ IdleAnalysis /\ IdleScan /\ IdleDb /\ IdleSettings /\ IdleApp

AnalyzeStatistics ==
  /\ pc = "ready"
  /\ pc' = "done"
  /\ statistics' = analyzeStatistics(text, topN)
  /\ UNCHANGED <<text, limitType, limitValue, overflow, counts, wpm,
                 readings, readability, analysis, topN, scanVars, dbVars,
                 settingsVars, appVars>>

NextStatistics == AnalyzeStatistics

SpecStatistics == InitStatistics /\ [][NextStatistics]_vars

\* ---- the documents of the database ----
\* A session on a fresh database: the calls are awaited one after the
\* other, so each action is one whole call.
Contents == {"Original", "Updated"}

Documents ==
  {StoredDocument(DocumentIds[k], content, updatedAt) :
     k \in 1..Len(DocumentIds), content \in Contents,
     updatedAt \in 1..MaxUpdatedAt}

IdleEngine ==
  /\ text = << >>
  /\ IdleOverflow /\ IdleCounts /\ IdleReadingTime /\ IdleReadability
  /\ IdleAnalysis /\ IdleStatistics /\ IdleScan

engineVars ==
  <<pc, text, limitType, limitValue, overflow, counts, wpm, readings,
    readability, analysis, statisticsVars, scanVars>>

InitDocuments ==
  /\ pc = "ready"
  /\ dbPromise = "null"
  /\ documents = {}
  /\ versions = {}
  /\ lastCall = NoCall
  /\ latest = [k \in 1..Len(DocumentIds) |-> {}]
  /\ IdleEngine /\ IdleSettings /\ IdleApp

\* one call on the store "documents"
DocumentCall(settled) ==
  /\ lastCall' = settled.call
  /\ documents' = settled.store
  /\ dbPromise' = settled.dbPromise
  /\ UNCHANGED <<engineVars, versions, settingsVars, appVars>>

SaveDocument(doc) ==
  /\ DocumentCall(saveDocument(dbPromise, documents, doc))
  /\ latest' = [latest EXCEPT ![keyRank(doc.id)] = {doc}]

DeleteDocument(id) ==
  /\ DocumentCall(deleteDocument(dbPromise, documents, id))
  /\ latest' = [latest EXCEPT ![keyRank(id)] = {}]

GetDocument(id) ==
  /\ DocumentCall(getDocument(dbPromise, documents, id))
  /\ UNCHANGED latest

GetAllDocuments ==
  /\ DocumentCall(getAllDocuments(dbPromise, documents))
  /\ UNCHANGED latest

ResetDB ==
  /\ dbPromise' = resetDB(dbPromise)
  /\ lastCall' = Fulfilled("resetDB", << >>, {})
  /\ UNCHANGED <<engineVars, documents, versions, latest, settingsVars, appVars>>

NextDocuments ==
  \/ \E doc \in Documents : SaveDocument(doc)
  \/ \E k \in 1..Len(DocumentIds) : DeleteDocument(DocumentIds[k])
  \/ \E k \in 1..Len(DocumentIds) : GetDocument(DocumentIds[k])
  \/ GetAllDocuments
  \/ ResetDB

SpecDocuments == InitDocuments /\ [][NextDocuments]_vars

\* ---- the versions of the database ----
\* the creation times of the versions
CreatedAts == {1000, 1100}

Versions ==
  {StoredVersion(id, DocumentIds[k], type, createdAt) :
     id \in 1..MaxVersionId, k \in 1..Len(DocumentIds),
     type \in {"auto", "manual"}, createdAt \in CreatedAts}

InitVersions ==
  /\ pc = "ready"
  /\ dbPromise = "null"
  /\ documents = {}
  /\ versions = {}
  /\ lastCall = NoCall
  /\ latest = << >>
  /\ IdleEngine /\ IdleSettings /\ IdleApp

\* one call on the store "versions"
VersionCall(settled) ==
  /\ lastCall' = settled.call
  /\ versions' = settled.store
  /\ dbPromise' = settled.dbPromise
  /\ UNCHANGED <<engineVars, documents, latest, settingsVars, appVars>>

SaveVersion(version) ==
  VersionCall(saveVersion(dbPromise, versions, version))

DeleteVersion(id) ==
  VersionCall(deleteVersion(dbPromise, versions, id))

GetVersions(documentId) ==
  VersionCall(getVersions(dbPromise, versions, documentId, MaxVersionId))

PruneAutoVersions(documentId, maxCount) ==
  VersionCall(pruneAutoVersions(dbPromise, versions, documentId, maxCount,
                                MaxVersionId))

NextVersions ==
  \/ \E version \in Versions : SaveVersion(version)
  \/ \E id \in 1..MaxVersionId : DeleteVersion(id)
  \/ \E k \in 1..Len(DocumentIds) : GetVersions(DocumentIds[k])
  \/ \E k \in 1..Len(DocumentIds), maxCount \in 0..MaxCount :
       PruneAutoVersions(DocumentIds[k], maxCount)
  \/ ResetDB

SpecVersions == InitVersions /\ [][NextVersions]_vars

\* ---- the settings ----
\* pc is "saved" after a saveSetting and "loaded" after a loadSettings;
\* lastLoad holds what loadSettings returned until the next call.
ValidValues(name) ==
  CASE name = "theme" -> {String("dark"), String("light")}
    [] name = "sidebarWidth" ->
         {Number(MinSidebarWidth), Number(220), Number(MaxSidebarWidth)}
    [] name = "bottomPanelTab" ->
         {String("details"), String("limits"), String("history")}
    [] OTHER -> {Boolean(TRUE), Boolean(FALSE)}

NeverSaved == [name \in SettingNames |-> Undefined]

\* a session that starts on an empty storage
InitSettings ==
  /\ pc = "ready"
  /\ storage = [key \in StorageKeys |-> << >>]
  /\ lastLoad = << >>
  /\ saved = NeverSaved
  /\ IdleEngine /\ IdleDb /\ IdleApp

SaveSetting(name, v) ==
  /\ pc' = "saved"
  /\ storage' = saveSetting(storage, name, v)
  /\ lastLoad' = << >>
  /\ saved' = [saved EXCEPT ![name] = v]
  /\ UNCHANGED <<text, limitType, limitValue, overflow, counts, wpm,
                 readings, readability, analysis, statisticsVars, scanVars,
                 dbVars, appVars>>

LoadSettings ==
  /\ pc' = "loaded"
  /\ lastLoad' = Return(loadSettings(storage))
  /\ UNCHANGED <<text, limitType, limitValue, overflow, counts, wpm,
                 readings, readability, analysis, statisticsVars, scanVars,
                 dbVars, storage, saved, appVars>>

NextSettings ==
  \/ \E name \in SettingNames : \E v \in ValidValues(name) :
       SaveSetting(name, v)
  \/ LoadSettings

SpecSettings == InitSettings /\ [][NextSettings]_vars

\* ---- the settings of a storage with any contents ----
\* a text that is no JSON
Garbage == "{oops"

\* the objects with at most the properties first and second, in both orders
SampleObjects(first, firstValues, second, secondValues) ==
  {Object(<< >>)}
    \cup {Object(<< <<first, v>> >>) : v \in firstValues}
    \cup {Object(<< <<second, w>> >>) : w \in secondValues}
    \cup {Object(<< <<first, v>>, <<second, w>> >>) :
            v \in firstValues, w \in secondValues}
    \cup {Object(<< <<second, w>>, <<first, v>> >>) :
            v \in firstValues, w \in secondValues}

\* a missing item, a text that is no JSON, or the JSON text of a value
ItemsOf(values) ==
  {<< >>, <<Garbage>>} \cup {<<stringify(v)>> : v \in values}

StoredItems ==
  [count_theme |->
     ItemsOf({String("dark"), String("light"), String("blue"),
              Boolean(TRUE), Null}),
   count_sidebar |->
     ItemsOf({Null, Array(<< >>), Boolean(TRUE)}
               \cup SampleObjects("collapsed",
                                  {Boolean(TRUE), String("dark")},
                                  "width", {Number(48), Number(321)})),
   count_bottom_panel |->
     ItemsOf({Null, Array(<< >>), String("limits")}
               \cup SampleObjects("open", {Boolean(FALSE), Null},
                                  "tab", {String("limits"), String("blue")})),
   count_focus_mode |->
     ItemsOf({Boolean(TRUE), Boolean(FALSE), String("dark"), Null}),
   count_chars_spaces |->
     ItemsOf({Boolean(TRUE), Boolean(FALSE), Number(47), Null})]

InitStoredSettings ==
  /\ pc = "ready"
  /\ \E theme \in StoredItems.count_theme,
        sidebar \in StoredItems.count_sidebar,
        bottom \in StoredItems.count_bottom_panel,
        focus \in StoredItems.count_focus_mode,
        chars \in StoredItems.count_chars_spaces :
       storage = [key \in StorageKeys |->
                    CASE key = keyMap.theme -> theme
                      [] key = keyMap.sidebarWidth -> sidebar
                      [] key = keyMap.bottomPanelTab -> bottom
                      [] key = keyMap.focusMode -> focus
                      [] key = keyMap.charsIncludeSpaces -> chars]
  /\ lastLoad = << >>
  /\ saved = NeverSaved
  /\ IdleEngine /\ IdleDb /\ IdleApp

NextStoredSettings == LoadSettings

SpecStoredSettings == InitStoredSettings /\ [][NextStoredSettings]_vars

\* ---- the counter on texts with line breaks ----
BreakAlphabet == {"a", " ", LF}

\* "First.\n\nSecond.\n\nThird." and "a\n\n\n\nb"
ThreeParagraphs ==
  <<"F", "i", "r", "s", "t", ".", LF, LF, "S", "e", "c", "o", "n", "d", ".",
    LF, LF, "T", "h", "i", "r", "d", ".">>

MultipleNewlines == <<"a", LF, LF, LF, LF, "b">>

InitParagraphs ==
  /\ pc = "ready"
  /\ text \in TextsOver(BreakAlphabet, MaxBreakLen)
                \cup {ThreeParagraphs, MultipleNewlines}
  /\ counts = NoCounts
  /\ IdleOverflow /\ IdleReadingTime /\ IdleReadability /\ IdleRest

SpecParagraphs == InitParagraphs /\ [][NextCounter]_vars

\* ---- the scan of countSentences, one iteration at a time ----
\* pc is "ready" before the call, "scanning" while the loop runs on the
\* trimmed text and "done" when the call has returned.
ScanAlphabet == {"D", "r", ".", "?", " "}

DrSmith ==
  <<"D", "r", ".", " ", "S", "m", "i", "t", "h", " ", "w", "e", "n", "t",
    " ", "t", "o", " ", "D", ".", "C", ".">>

LiveInDC ==
  <<"I", " ", "l", "i", "v", "e", " ", "i", "n", " ", "D", ".", "C", ".",
    " ", "I", "t", " ", "i", "s", " ", "b", "u", "s", "y", ".">>

TheUS ==
  <<"T", "h", "e", " ", "U", ".", "S", ".", " ", "i", "s", " ", "l", "a",
    "r", "g", "e", ".">>

\* W ... and W ... W for the texts W of letters and spaces
EllipsisTexts ==
  {W \o <<".", ".", ".">> :
     W \in TextsOver({"D", "r", " "}, MaxEllipsisLen)}
    \cup {W \o <<".", ".", ".", " ">> \o W :
            W \in TextsOver({"D", "r", " "}, MaxEllipsisLen)}

InitSentenceScan ==
  /\ pc = "ready"
  /\ text \in TextsOver(ScanAlphabet, MaxScanLen)
                \cup {DrSmith, LiveInDC, TheUS} \cup EllipsisTexts
  /\ scan = ScanState(0, 0, 0)
  /\ sentences = 0
  /\ IdleOverflow /\ IdleCounts /\ IdleReadingTime /\ IdleReadability
  /\ IdleAnalysis /\ IdleStatistics /\ IdleDb /\ IdleSettings /\ IdleApp

\* the trim, the early returns and the initialisation of the locals
BeginScan ==
  /\ pc = "ready"
  /\ IF trim(text) = << >> \/ matchNonWhitespaceRuns(trim(text)) = 0
       THEN pc' = "done" /\ sentences' = 0 /\ UNCHANGED scan
       ELSE pc' = "scanning" /\ scan' = ScanState(0, 0, 0)
              /\ UNCHANGED sentences
  /\ UNCHANGED <<text, limitType, limitValue, overflow, counts, wpm,
                 readings, readability, analysis, statisticsVars, dbVars,
                 settingsVars, appVars>>

\* one iteration of while (i < trimmed.length)
ScanStep ==
  /\ pc = "scanning"
  /\ scan.i < Len(trim(text))
  /\ scan' = scanStep(trim(text), scan)
  /\ UNCHANGED <<pc, text, limitType, limitValue, overflow, counts, wpm,
                 readings, readability, analysis, statisticsVars, sentences,
                 dbVars, settingsVars, appVars>>

\* the code after the loop
ReturnSentences ==
  /\ pc = "scanning"
  /\ scan.i >= Len(trim(text))
  /\ pc' = "done"
  /\ sentences' = sentencesAfterScan(trim(text), scan)
  /\ UNCHANGED <<text, limitType, limitValue, overflow, counts, wpm,
                 readings, readability, analysis, statisticsVars, scan,
                 dbVars, settingsVars, appVars>>

NextSentenceScan == BeginScan \/ ScanStep \/ ReturnSentences

SpecSentenceScan == InitSentenceScan /\ [][NextSentenceScan]_vars

\* ---- the toast store ----
Messages == {"File saved", "Clickable"}

\* options?.duration of a toast() call
Durations == {Undefined, Number(1000)}

\* the times passed to advanceTimersByTime
Advances == {999, 1000, 2500, 3499, 3500}

InitToasts ==
  /\ pc = "ready"
  /\ nextId = 0 /\ toasts = << >> /\ timers = {} /\ pending = {} /\ now = 0
  /\ created = << >> /\ clicked = {} /\ cleared = {}
  /\ IdleEngine /\ IdleDb /\ IdleSettings /\ IdleLoops /\ IdleTheme

toastStore == ToastStore(nextId, toasts, timers, pending)

\* the store after a call
Becomes(after) ==
  /\ nextId' = after.nextId
  /\ toasts' = after.toasts
  /\ timers' = after.timers
  /\ pending' = after.pending

outsideToasts == <<engineVars, dbVars, settingsVars, loopVars, themeVars>>

Toast(message, duration) ==
  /\ nextId < MaxToasts
  /\ Becomes(toast(toastStore, message, duration, now))
  /\ created' = Append(created,
                       [id |-> nextId, at |-> now, options |-> duration])
  /\ UNCHANGED <<now, clicked, cleared, outsideToasts>>

\* a click on the ToastItem of a displayed entry: onDismiss
Click(id) ==
  /\ \E k \in 1..Len(getSnapshot(toastStore)) : getSnapshot(toastStore)[k].id = id
  /\ Becomes(removeToast(toastStore, id))
  /\ clicked' = clicked \cup {id}
  /\ UNCHANGED <<now, created, cleared, outsideToasts>>

\* d ms pass; the timers that become due fire
AdvanceTimersByTime(d) ==
  /\ now + d <= MaxClock
  /\ now' = now + d
  /\ Becomes(runTimers(toastStore, now + d))
  /\ UNCHANGED <<created, clicked, cleared, outsideToasts>>

ClearToasts ==
  /\ Becomes(clearToasts(toastStore))
  /\ cleared' = cleared \cup {toasts[k].id : k \in 1..Len(toasts)}
  /\ UNCHANGED <<now, created, clicked, outsideToasts>>

NextToasts ==
  \/ \E message \in Messages : \E duration \in Durations :
       Toast(message, duration)
  \/ \E id \in 0..(MaxToasts - 1) : Click(id)
  \/ \E d \in Advances : AdvanceTimersByTime(d)
  \/ ClearToasts

SpecToasts == InitToasts /\ [][NextToasts]_vars

\* ---- the scan of countSentences on long runs of letters ----
\* n times the letter c
RECURSIVE repeated(_, _)
repeated(c, n) == IF n = 0 THEN << >> ELSE <<c>> \o repeated(c, n - 1)

\* a run of letters of any length up to MaxRunLen, then nothing, an
\* initial or an abbreviation, then a period and what follows it
LongRunTexts ==
  {before \o repeated(c, n) \o word \o <<".">> \o after :
     before \in {<< >>, <<"D", " ">>},
     c \in {"D", "r"},
     n \in 0..MaxRunLen,
     word \in {<< >>, <<"D">>, <<"D", "r">>, <<"e", "t", "c">>,
               <<"a", "p", "p", "r", "o", "x">>},
     after \in {<< >>, <<" ", "r">>, <<" ", "D">>, <<"D", ".">>}}

InitLookBack ==
  /\ pc = "ready"
  /\ text \in LongRunTexts
  /\ scan = ScanState(0, 0, 0)
  /\ sentences = 0
  /\ IdleOverflow /\ IdleCounts /\ IdleReadingTime /\ IdleReadability
  /\ IdleAnalysis /\ IdleStatistics /\ IdleDb /\ IdleSettings /\ IdleApp

SpecLookBack == InitLookBack /\ [][NextSentenceScan]_vars

\* ---- the theme store ----
\* pc is "ready" until initTheme is called, "initialised" after.
SystemPreferences == {"light", "dark", "unavailable"}

InitThemeStore ==
  /\ pc = "ready"
  /\ currentTheme = "dark"
  /\ dataTheme = "none"
  /\ system \in SystemPreferences
  /\ lastToggle = "none"
  /\ \E theme \in StoredItems.count_theme,
        focus \in StoredItems.count_focus_mode :
       storage = [key \in StorageKeys |->
                    CASE key = keyMap.theme -> theme
                      [] key = keyMap.focusMode -> focus
                      [] OTHER -> << >>]
  /\ lastLoad = << >>
  /\ saved = NeverSaved
  /\ IdleEngine /\ IdleDb /\ IdleLoops /\ IdleToasts

themeState == ThemeState(currentTheme, dataTheme, storage)

outsideTheme ==
  <<engineVars, dbVars, lastLoad, saved, loopVars, toastVars, system>>

\* initTheme(storage), at startup or later on the same storage
InitTheme ==
  /\ LET after == initTheme(storage, system)
     IN /\ currentTheme' = after.currentTheme
        /\ dataTheme' = after.dataTheme
        /\ storage' = after.storage
  /\ pc' = "initialised"
  /\ UNCHANGED <<text, limitType, limitValue, overflow, counts, wpm,
                 readings, readability, analysis, statisticsVars, scanVars,
                 dbVars, lastLoad, saved, loopVars, toastVars, system,
                 lastToggle>>

\* toggleTheme() of the hook, once the theme is initialised
ToggleTheme ==
  /\ pc = "initialised"
  /\ LET after == toggleTheme(themeState)
     IN /\ currentTheme' = after.currentTheme
        /\ dataTheme' = after.dataTheme
        /\ storage' = after.storage
        /\ lastToggle' = after.currentTheme
  /\ UNCHANGED outsideTheme

NextTheme == InitTheme \/ ToggleTheme

SpecTheme == InitThemeStore /\ [][NextTheme]_vars

\* ---- the loops of the scans, one iteration at a time ----
\* pc is "ready" before the call, "running" inside it and "done" after it.
LoopFunctions ==
  {"countSentences", "detectWordOverflow", "detectParagraphOverflow"}

\* "a\r\n\na" and "a \n\r\n a": two paragraphs with mixed line endings
MixedBreaks ==
  {<<"a", CR, LF, LF, "a">>, <<"a", " ", LF, CR, LF, " ", "a">>}

InitLoops ==
  /\ pc = "ready"
  /\ \E fn \in LoopFunctions :
       /\ frame = [fn |-> fn]
       /\ IF fn = "countSentences"
            THEN /\ text \in TextsOver(ScanAlphabet, MaxLoopLen)
                             \cup {DrSmith, LiveInDC, TheUS}
                 /\ limitType = "words" /\ limitValue = 0
            ELSE /\ text \in TextsOver(OverflowAlphabet, MaxLoopLen)
                             \cup MixedBreaks
                 /\ limitType
                      = (IF fn = "detectWordOverflow" THEN "words"
                                                        ELSE "paragraphs")
                 /\ limitValue \in 0..MaxLoopLimit
  /\ overflow = NoOverflowResult
  /\ IdleCounts /\ IdleReadingTime /\ IdleReadability
  /\ IdleAnalysis /\ IdleStatistics /\ IdleScan /\ IdleDb /\ IdleSettings
  /\ IdleToasts /\ IdleTheme

outsideLoops ==
  <<text, limitType, limitValue, overflow, counts, wpm, readings,
    readability, analysis, statisticsVars, scanVars, dbVars, settingsVars,
    toastVars, themeVars>>

\* the call and the code before the loop
EnterScan ==
  /\ pc = "ready"
  /\ frame' = enter(frame.fn, text, limitValue)
  /\ pc' = IF frame'.at = "returned" THEN "done" ELSE "running"
  /\ UNCHANGED outsideLoops

\* one iteration of the loop the call is in, or the step that leaves it
Iterate ==
  /\ pc = "running"
  /\ frame.at # "return"
  /\ frame' = iteration(text, limitValue, frame)
  /\ UNCHANGED <<pc, outsideLoops>>

\* the code after the loop
LeaveScan ==
  /\ pc = "running"
  /\ frame.at = "return"
  /\ frame' = [frame EXCEPT !.at = "returned",
                            !.result = leave(text, limitValue, frame)]
  /\ pc' = "done"
  /\ UNCHANGED outsideLoops

NextLoops == EnterScan \/ Iterate \/ LeaveScan

\* a call that has started keeps running until it returns
SpecLoops == InitLoops /\ [][NextLoops]_vars /\ WF_vars(NextLoops)


(***************************************************************************)
(* Properties of the overflow detector.                                    *)
(***************************************************************************)
OverflowDone == pc = "done"

\* the index in t of the first character of the k-th paragraph that
\* countParagraphs counts: the start of the k-th non-blank block
paragraphStart(t, k) == leadingWhitespace(t, 0) + paragraphBlocks(t)[k][1]

\* C1: for a paragraph limit L with 1 <= L < countParagraphs(text), the
\* result is over the limit by countParagraphs(text) - L and the boundary is
\* the index of the first character of paragraph L + 1 of countParagraphs.
C1_ParagraphBoundaryAgrees ==
  (OverflowDone /\ limitType = "paragraphs"
     /\ 1 <= limitValue /\ limitValue < countParagraphs(text))
  => /\ overflow.isOver
     /\ overflow.overflowAmount = countParagraphs(text) - limitValue
     /\ overflow.boundaryCharIndex = paragraphStart(text, limitValue + 1)

hasWord(t) == \E k \in 1..Len(t) : ~isWhitespace(t[k])

\* C2 as stated: with limit 0 every non-empty text, also a text of
\* whitespace only, is over the limit with boundary 0 under every limit kind.
C2_ZeroLimitAlwaysOver ==
  (OverflowDone /\ text # << >> /\ limitValue = 0)
  => overflow.isOver /\ overflow.boundaryCharIndex = 0

\* C2 amended: with limit 0 a non-empty text is over the limit with boundary
\* 0 under the kind characters, and under the kinds words and paragraphs
\* exactly when it has a non-whitespace character; a text of whitespace only
\* is not over a words or paragraphs limit of 0.
C2_ZeroLimitOverWhenCounted ==
  (OverflowDone /\ text # << >> /\ limitValue = 0)
  => IF limitType = "characters" \/ hasWord(text)
       THEN overflow.isOver /\ overflow.boundaryCharIndex = 0
       ELSE ~overflow.isOver /\ overflow.boundaryCharIndex = Len(text)

C2_Witness ==
  /\ OverflowDone /\ limitValue = 0 /\ limitType = "words"
  /\ Len(text) >= 2 /\ text[1] = " " /\ hasWord(text)
  /\ overflow.isOver /\ overflow.boundaryCharIndex = 0

\* C3: a result that is not over the limit has boundary length(text) and
\* overflow amount 0, and the empty text yields {false, 0, 0}.
C3_NotOverMeansEnd ==
  OverflowDone
  => /\ ~overflow.isOver
          => /\ overflow.boundaryCharIndex = Len(text)
             /\ overflow.overflowAmount = 0
     /\ text = << >> => overflow = OverflowResult(FALSE, 0, 0)

C3_Witness ==
  /\ OverflowDone /\ limitType = "characters"
  /\ Len(text) = 2 /\ limitValue = 3
  /\ ~overflow.isOver /\ overflow.boundaryCharIndex = 2

\* the 0-based indices at which a word of t starts
wordStarts(t) ==
  {i \in 0..(Len(t) - 1) :
     /\ ~isWhitespace(t[i + 1])
     /\ (i = 0 \/ isWhitespace(t[i]))}

\* C4: for a word limit L with 1 <= L < countWords(text) the boundary is the
\* index of the first character of word L + 1: the prefix before it holds
\* exactly L words, the suffix from it starts with a non-whitespace character
\* and holds exactly overflowAmount = countWords(text) - L words.
C4_WordBoundary ==
  (OverflowDone /\ limitType = "words"
     /\ 1 <= limitValue /\ limitValue < countWords(text))
  => LET b == overflow.boundaryCharIndex
     IN /\ overflow.isOver
        /\ overflow.overflowAmount = countWords(text) - limitValue
        /\ b \in wordStarts(text)
        /\ Cardinality({i \in wordStarts(text) : i < b}) = limitValue
        /\ countWords(slice(text, 0, b)) = limitValue
        /\ ~isWhitespace(text[b + 1])
        /\ countWords(slice(text, b, Len(text))) = overflow.overflowAmount

C4_Witness ==
  /\ OverflowDone /\ limitType = "words" /\ limitValue = 2
  /\ text = <<" ", "a", LF, "a", " ", "a">>
  /\ overflow = OverflowResult(TRUE, 1, 5)

\* C5: for every integer limit value the boundary lies in 0..length(text)
\* and the overflow amount is not negative.
C5_ResultInRange ==
  OverflowDone
  => /\ 0 <= overflow.boundaryCharIndex
     /\ overflow.boundaryCharIndex <= Len(text)
     /\ overflow.overflowAmount >= 0

(***************************************************************************)
(* Properties of the counter.                                              *)
(***************************************************************************)
\* C6: countSentences(text) is 0 exactly when countWords(text) is 0, and at
\* least 1 whenever the text has a word, whatever its punctuation.
C6_SentencesIffWords ==
  pc = "done"
  => /\ (counts.sentences = 0) <=> (counts.words = 0)
     /\ (counts.words = 0) <=> ~hasWord(text)
     /\ counts.words >= 1 => counts.sentences >= 1

C6_Witness ==
  /\ pc = "done" /\ text = <<".", ".", ".">>
  /\ counts.words = 1 /\ counts.sentences = 1

(***************************************************************************)
(* Properties of the reading-time estimator.                               *)
(***************************************************************************)
Calls == {readings[k] : k \in 1..Len(readings)}

\* C7: estimateReadingTime fails for every words-per-minute rate <= 0,
\* whatever the word count; it never returns a result for such a rate.
C7_NonPositiveWpmThrows ==
  \A call \in Calls : wpm <= 0 => call.result.kind = "throw"

\* C9: for wordCount > 0 and wpm > 0 the result is {0, "< 1 min read"} if
\* 4 * wordCount < wpm and otherwise minutes = ceil(wordCount / wpm) >= 1
\* with label "~{minutes} min read"; for wordCount <= 0 at the default rate
\* it is {0, "< 1 min read"}; the label is "< 1 min read" exactly when
\* minutes = 0.
C9_ReadingTimeValue ==
  \A call \in Calls :
    LET n == call.wordCount
        r == call.result
    IN /\ (n > 0 /\ wpm > 0)
            => /\ r.kind = "return"
               /\ IF 4 * n < wpm
                    THEN r.value = ReadingTimeResult(0, "< 1 min read")
                    ELSE /\ r.value.minutes >= 1
                         /\ (r.value.minutes - 1) * wpm < n
                         /\ n <= r.value.minutes * wpm
                         /\ r.value.label
                              = "~" \o ToString(r.value.minutes) \o " min read"
       /\ r.kind = "return"
            => ((r.value.label = "< 1 min read") <=> (r.value.minutes = 0))
       /\ (n <= 0 /\ wpm = DefaultWpm)
            => r = Return(ReadingTimeResult(0, "< 1 min read"))

C9_Witness ==
  /\ wpm = DefaultWpm
  /\ Len(readings) = 2
  /\ readings[1] = [wordCount |-> 62,
                    result |-> Return(ReadingTimeResult(0, "< 1 min read"))]
  /\ readings[2] = [wordCount |-> 260,
                    result |-> Return(ReadingTimeResult(2, "~2 min read"))]

\* C10: for a fixed rate wpm > 0 and word counts a <= b the minutes
\* estimated for a are at most the minutes estimated for b.
C10_Monotonic ==
  (Len(readings) = 2 /\ wpm > 0
     /\ readings[1].wordCount <= readings[2].wordCount)
  => /\ readings[1].result.kind = "return"
     /\ readings[2].result.kind = "return"
     /\ readings[1].result.value.minutes <= readings[2].result.value.minutes

C10_Witness ==
  /\ Len(readings) = 2 /\ wpm = 6
  /\ readings[1].wordCount = 6 /\ readings[2].wordCount = 7
  /\ readings[1].result.value.minutes = 1
  /\ readings[2].result.value.minutes = 2

(***************************************************************************)
(* Properties of the grade labels.                                         *)
(***************************************************************************)
\* the description of the bucket of the rounded grade g
gradeDescription(g) ==
  IF g <= 1 THEN "Very easy to read"
  ELSE IF g <= 3 THEN "Easy to read"
  ELSE IF g <= 5 THEN "Fairly easy to read"
  ELSE IF g <= 8 THEN "Plain language"
  ELSE IF g <= 10 THEN "Fairly difficult to read"
  ELSE IF g <= 12 THEN "Difficult to read"
  ELSE IF g <= 16 THEN "College level"
  ELSE "Professional/academic"

\* the nearest integer to a grade given in tenths (a half rounds up)
nearestInteger(tenths) ==
  CHOOSE g \in (0 - MaxNegGradeTenths - 10)..(MaxGradeTenths + 40) :
    10 * g - 5 <= tenths /\ tenths < 10 * g + 5

statedLabel(tenths) ==
  "Grade " \o ToString(nearestInteger(tenths)) \o Dash
    \o gradeDescription(nearestInteger(tenths))

\* C8: each grade label is "Grade g -- description" with g the grade
\* rounded to the nearest integer, for every g including g <= 0, and the
\* description of the bucket of g.
C8_GradeLabelFormat ==
  (pc = "done" /\ analysis.returned = "result")
  => /\ readability.fleschKincaid.label
          = statedLabel(readability.fleschKincaid.grade)
     /\ readability.colemanLiau.label
          = statedLabel(readability.colemanLiau.grade)

(***************************************************************************)
(* Properties of analyzeReadability.                                       *)
(***************************************************************************)
\* C11: analyzeReadability returns null exactly when the text contains no
\* word; for every text with a word it returns a result, and the counts the
\* formulas divide by, the word count and the sentence count, are both at
\* least 1.
C11_NullIffNoWord ==
  pc = "done"
  => /\ analysis.returned \in {"null", "result"}
     /\ (analysis.returned = "null") <=> ~hasWord(text)
     /\ analysis.returned = "result"
          => analysis.wordCount >= 1 /\ analysis.sentenceCount >= 1

\* a result for a text without any terminator, and null for a blank text
C11_Witness ==
  /\ pc = "done"
  /\ text = <<" ", "D", "D">>
  /\ analysis = ReadabilityCounts("result", 1, 1)

(***************************************************************************)
(* Properties of analyzeStatistics.                                        *)
(***************************************************************************)
\* the number of clean words of the text equal to w after case folding
occurrences(w) ==
  LET clean == cleanWords(matchWords(text, 0))
  IN Cardinality({k \in 1..Len(clean) : toLowerCase(clean[k]) = w})

\* the words that compete for the list: the case-folded clean words of the
\* text that are no stop words
candidateWords ==
  LET clean == cleanWords(matchWords(text, 0))
  IN {toLowerCase(clean[k]) : k \in 1..Len(clean)} \ STOP_WORDS

\* C12: topWords has at most topN entries, is ordered by non-increasing
\* count, contains no stop word and no word twice, gives each listed word
\* the number of clean words of the text equal to it after case folding,
\* and no candidate word left out has a count above the smallest listed
\* count.
C12_TopWords ==
  pc = "done"
  => LET top == statistics.topWords
         listed == {top[k].word : k \in 1..Len(top)}
     IN /\ Len(top) <= topN
        /\ \A k \in 1..(Len(top) - 1) : top[k].count >= top[k + 1].count
        /\ \A k \in 1..Len(top) : top[k].word \notin STOP_WORDS
        /\ \A j, k \in 1..Len(top) : top[j].word = top[k].word => j = k
        /\ \A k \in 1..Len(top) : top[k].count = occurrences(top[k].word)
        /\ \A w \in candidateWords \ listed :
             Len(top) > 0 => occurrences(w) <= top[Len(top)].count

\* "b c c" with topN = 1: c is listed with count 2 although b came first
C12_Witness ==
  /\ pc = "done"
  /\ text = <<"b", " ", "c", " ", "c">>
  /\ topN = 1
  /\ statistics.topWords = <<[word |-> <<"c">>, count |-> 2]>>

(***************************************************************************)
(* Properties of countCharacters.                                          *)
(***************************************************************************)
\* C13: the count with spaces is at least the count without; both are 0
\* for an empty or whitespace-only text; otherwise the first is the length
\* of the text and the second the number of its non-whitespace characters.
C13_CharacterCounts ==
  pc = "done"
  => /\ counts.characters >= counts.charactersNoSpaces
     /\ ~hasWord(text)
          => counts.characters = 0 /\ counts.charactersNoSpaces = 0
     /\ hasWord(text)
          => /\ counts.characters = Len(text)
             /\ counts.charactersNoSpaces
                  = Cardinality({k \in 1..Len(text) : ~isWhitespace(text[k])})

\* a text with leading, inner and trailing whitespace
C13_Witness ==
  /\ pc = "done"
  /\ text = <<" ", "D", " ", "r", " ">>
  /\ counts.characters = 5
  /\ counts.charactersNoSpaces = 2

(***************************************************************************)
(* Properties of the document store.                                       *)
(***************************************************************************)
\* C14: in a session of awaited saveDocument, deleteDocument and
\* getDocument calls every call completes without error, and getDocument(id)
\* returns the document most recently saved under id, or undefined if none
\* was saved under id or it was deleted since.
C14_GetReturnsLatest ==
  /\ lastCall.settled # "rejected"
  /\ lastCall.op = "getDocument"
       => lastCall.value = latest[keyRank(lastCall.args)]

(***************************************************************************)
(* Properties of the version store.                                        *)
(***************************************************************************)
autoVersionsOf(store, documentId) ==
  {v \in store : v.documentId = documentId /\ v.type = "auto"}

C16_LoadReturnsSaved ==
  /\ [](pc = "loaded"
          => \A name \in SettingNames :
               lastLoad.value[name]
                 = IF saved[name] = Undefined THEN defaultSettings[name]
                   ELSE saved[name])
  /\ [][pc' = "saved"
          => \A name \in SettingNames :
               saved'[name] = saved[name]
                 => loadSettings(storage')[name] = loadSettings(storage)[name]
       ]_vars

\* width saved before collapsed: both are loaded from the one item
C16_Witness ==
  /\ pc = "loaded"
  /\ storage[keyMap.sidebarWidth] = <<"{\"width\":320,\"collapsed\":true}">>
  /\ lastLoad.value.sidebarWidth = Number(320)
  /\ lastLoad.value.sidebarCollapsed = Boolean(TRUE)
  /\ lastLoad.value.theme = String("dark")
  /\ saved.theme = Undefined

\* the value stored for a setting: the value of the JSON text of its key,
\* for a field of a compound key the property of that value if it is an
\* object or an array; undefined in every other case
storedValue(name) ==
  LET item == storage[keyMap[name]]
      parsed == parse(item[1])
  IN IF item = << >> THEN Undefined
     ELSE IF parsed.kind = "throw" THEN Undefined
     ELSE IF name \notin DOMAIN propertyName THEN parsed.value
     ELSE IF parsed.value.type \notin {"object", "array"} THEN Undefined
     ELSE getProperty(parsed.value, propertyName[name])

atSinglePeriod ==
  /\ pc = "scanning"
  /\ scan.i < Len(trim(text))
  /\ trim(text)[scan.i + 1] = "."
  /\ ~(scan.i + 1 < Len(trim(text)) /\ trim(text)[scan.i + 2] = ".")

\* the maximal run of letters that ends right before index i of t
lettersBefore(t, i) ==
  LET starts == {b \in 0..i : \A k \in (b + 1)..i : isLetter(t[k])}
      b == CHOOSE x \in starts : \A y \in starts : x <= y
  IN slice(t, b, i)

\* the text after index i of t, optional whitespace skipped, begins with an
\* uppercase letter followed by a period or with a lowercase letter
initialContinues(t, i) ==
  \E j \in (i + 1)..(Len(t) - 1) :
    /\ \A k \in (i + 2)..j : isWhitespace(t[k])
    /\ \/ isLower(t[j + 1])
       \/ isUpper(t[j + 1]) /\ j + 1 < Len(t) /\ t[j + 2] = "."

\* the step counted a boundary and recorded its end
countedBoundary ==
  /\ scan'.sentenceCount = scan.sentenceCount + 1
  /\ scan'.lastBoundaryEnd = scan'.i

\* the step only advanced past one character
onlyAdvanced ==
  scan' = ScanState(scan.i + 1, scan.sentenceCount, scan.lastBoundaryEnd)

C19_AbbreviationPeriod ==
  [][(atSinglePeriod
       /\ toLowerCase(lettersBefore(trim(text), scan.i)) \in ABBREVIATIONS)
      => onlyAdvanced]_vars

\* the scan has passed the period of a text that ends in "Dr." without
\* counting a boundary
C19_Witness ==
  /\ pc = "scanning"
  /\ text = <<"r", " ", "D", "r", ".">>
  /\ scan = ScanState(5, 0, 0)

\* the end of the run of dots that starts at index i of t
dotsEnd(t, i) ==
  CHOOSE e \in (i + 1)..Len(t) :
    /\ \A k \in (i + 1)..e : t[k] = "."
    /\ e < Len(t) => t[e + 1] # "."

\* the first index from i on that holds no whitespace, Len(t) if none
afterWhitespace(t, i) ==
  CHOOSE j \in i..Len(t) :
    /\ \A k \in (i + 1)..j : isWhitespace(t[k])
    /\ j < Len(t) => ~isWhitespace(t[j + 1])

\* a text of words without ".", "!" and "?"
plainWords(W) ==
  /\ hasWord(W)
  /\ \A k \in 1..Len(W) : W[k] \notin {".", "!", "?"}

isMark(c) == c = "!" \/ c = "?"

\* text[from + 1 .. to] is a non-empty run of "!" and "?" that the text
\* does not continue with a further mark
marksRun(t, from, to) ==
  /\ from < to
  /\ \A k \in (from + 1)..to : isMark(t[k])
  /\ to < Len(t) => ~isMark(t[to + 1])

\* C21: consecutive "!" and "?" form one boundary: whenever the text is
\* A + r + B with r a non-empty run of "!"/"?" and B not starting with one,
\* countSentences gives what it gives for A + "?" + B; the texts range over
\* all runs, so every two runs between the same A and B give the same count.
C21_MarksRunOneBoundary ==
  pc = "done"
  => \A from \in 0..Len(text) : \A to \in 0..Len(text) :
       marksRun(text, from, to)
       => counts.sentences
            = countSentences(slice(text, 0, from) \o <<"?">>
                               \o slice(text, to, Len(text)))

\* "D?! r" has two sentences, as "D? r" has
C21_Witness ==
  /\ pc = "done"
  /\ text = <<"D", "?", "!", " ", "r">>
  /\ marksRun(text, 1, 3)
  /\ counts.sentences = 2
  /\ countSentences(<<"D", "?", " ", "r">>) = 2

\* non-whitespace text remains after the end of the last recorded boundary
fragmentRemains(t, st) ==
  \E k \in (st.lastBoundaryEnd + 1)..Len(t) : ~isWhitespace(t[k])

\* the result of a call on a text with a word
statedSentences(t, st) ==
  IF st.sentenceCount = 0 THEN 1
  ELSE st.sentenceCount + (IF fragmentRemains(t, st) THEN 1 ELSE 0)

\* the recorded end never exceeds the scan index, which stays in the text
boundaryWithinScan ==
  pc \in {"scanning", "done"}
  => /\ scan.lastBoundaryEnd <= scan.i
     /\ scan.i <= Len(trim(text))

\* a step never moves the recorded end back, and it counts a boundary
\* exactly when it records a new end
boundaryRecorded ==
  /\ scan'.lastBoundaryEnd >= scan.lastBoundaryEnd
  /\ scan'.sentenceCount \in {scan.sentenceCount, scan.sentenceCount + 1}
  /\ (scan'.sentenceCount = scan.sentenceCount + 1)
       <=> (scan'.lastBoundaryEnd > scan.lastBoundaryEnd)
  /\ scan'.sentenceCount = scan.sentenceCount + 1
       => scan'.lastBoundaryEnd = scan'.i

\* C22: for a text with a word countSentences returns 1 if the scan found no
\* boundary, otherwise the number of boundaries plus 1 exactly when
\* non-whitespace text remains after the last recorded boundary end; during
\* the scan the recorded end never exceeds the scan index and never
\* decreases.
C22_ResultFromBoundaries ==
  /\ [](boundaryWithinScan
        /\ (pc = "done" /\ hasWord(text)
            => sentences = statedSentences(trim(text), scan)))
  /\ [][boundaryRecorded]_vars

\* "D? r" is scanned to its end with one boundary recorded at 3 and the
\* fragment "r" after it
C22_Witness ==
  /\ pc = "done"
  /\ text = <<"D", "?", " ", "r">>
  /\ scan = ScanState(4, 1, 3)
  /\ fragmentRemains(trim(text), scan)
  /\ sentences = 2

(***************************************************************************)
(* Properties of countParagraphs on mixed line endings.                    *)
(***************************************************************************)
\* the text with the "\n" at the indices of S written as "\r\n"
RECURSIVE withCRLF(_, _, _)
withCRLF(t, S, k) ==
  IF k >= Len(t) THEN << >>
  ELSE (IF k \in S THEN <<CR, t[k + 1]>> ELSE <<t[k + 1]>>)
         \o withCRLF(t, S, k + 1)

lineFeeds(t) == {k \in 0..(Len(t) - 1) : t[k + 1] = LF}

\* the character at index k opens a block with text: it is the first
\* non-whitespace character of a text without "\r" or, between it and the
\* non-whitespace character before it, two line breaks follow each other
opensBlock(t, k) ==
  /\ ~isWhitespace(t[k + 1])
  /\ LET before == {j \in 0..(k - 1) : ~isWhitespace(t[j + 1])}
     IN \/ before = {}
        \/ LET last == CHOOSE j \in before : \A h \in before : h <= j
           IN \E m \in (last + 1)..(k - 2) : t[m + 1] = LF /\ t[m + 2] = LF

blocksWithText(t) == Cardinality({k \in 0..(Len(t) - 1) : opensBlock(t, k)})

\* C23: for a text without "\r", countParagraphs is the number of blocks,
\* separated by runs of two or more line breaks, that hold a non-whitespace
\* character, and writing any subset of its "\n" as "\r\n" leaves
\* countParagraphs unchanged.
C23_MixedLineBreaks ==
  pc = "done"
  => /\ counts.paragraphs = blocksWithText(text)
     /\ \A S \in SUBSET lineFeeds(text) :
          countParagraphs(withCRLF(text, S, 0)) = counts.paragraphs

\* "First.\n\nSecond.\n\nThird." has 3 paragraphs, as
\* "First.\r\n\r\nSecond.\n\nThird." has
C23_Witness ==
  /\ pc = "done"
  /\ text = ThreeParagraphs
  /\ counts.paragraphs = 3
  /\ withCRLF(text, {6, 7}, 0)
       = <<"F", "i", "r", "s", "t", ".", CR, LF, CR, LF, "S", "e", "c", "o",
           "n", "d", ".", LF, LF, "T", "h", "i", "r", "d", ".">>
  /\ countParagraphs(withCRLF(text, {6, 7}, 0)) = 3

(***************************************************************************)
(* Properties of the loops of the scans.                                   *)
(***************************************************************************)
\* the call returns what the function returns
LoopsAgree ==
  pc = "done"
  => frame.result
       = CASE frame.fn = "countSentences" -> countSentences(text)
           [] frame.fn = "detectWordOverflow" ->
                detectWordOverflow(text, limitValue)
           [] frame.fn = "detectParagraphOverflow" ->
                detectParagraphOverflow(text, limitValue)

\* the steps a call can take on a text: between two advances of the scan
\* index a call changes its position at most three times
StepBound(t) == 4 * Len(t) + 4

\* the scan index stays inside the text and the steps taken stay bounded
indexWithinText ==
  pc = "running"
  => /\ 0 <= frame.i
     /\ frame.i <= Len(scanned(frame.fn, text))
     /\ frame.steps <= StepBound(text)

\* a step inside the loops: the index never moves back; an iteration of the
\* loop the call stays in advances it; an iteration of the outer loop, and
\* of the paragraph loop around the line-ending loop, ends beyond the index
\* it began at
indexAdvances ==
  (pc = "running" /\ pc' = "running" /\ frame.at # "return")
  => /\ frame'.i >= frame.i
     /\ frame'.at = frame.at => frame'.i > frame.i
     /\ (frame'.at = "while" /\ frame.at # "while")
          => frame'.i > frame.outer
     /\ (frame'.at = "paragraph" /\ frame.at = "lineEnds")
          => frame'.i > frame.inner

\* C24: in countSentences, detectWordOverflow and detectParagraphOverflow
\* the scan index strictly increases on every iteration of every loop and
\* never exceeds the length of the text, and every call returns after a
\* bounded number of steps.
C24_ScansTerminate ==
  /\ [](indexWithinText /\ LoopsAgree)
  /\ [][indexAdvances]_vars
  /\ <>(pc = "done")

\* detectParagraphOverflow("a\r\n\na", 1) has gone through the paragraph
\* loop and the line-ending loop and returned the boundary 4
C24_Witness ==
  /\ pc = "done"
  /\ frame.fn = "detectParagraphOverflow"
  /\ text = <<"a", CR, LF, LF, "a">>
  /\ limitValue = 1
  /\ frame.result = OverflowResult(TRUE, 1, 4)
  /\ frame.steps > Len(text)

(***************************************************************************)
(* Properties of the cached connection.                                    *)
(***************************************************************************)
\* C25: between calls of resetDB the connection cached by openDB stays
\* open, and no operation runs on a connection that an earlier operation
\* has closed: the cached connection is never a closed one and no call is
\* refused.
C25_ConnectionStaysOpen ==
  /\ dbPromise # "closed"
  /\ lastCall.settled # "rejected"

(***************************************************************************)
(* Properties of the toast store.                                          *)
(***************************************************************************)
displayedIds == {getSnapshot(toastStore)[k].id : k \in 1..Len(getSnapshot(toastStore))}

\* the duration of a toast: that of its options, 3500 ms without
statedDuration(options) ==
  IF options = Undefined THEN 3500 ELSE options.value

elapsed(c) == now >= c.at + statedDuration(c.options)

\* toasts are stacked in creation order and their ids are unique
stackedInCreationOrder ==
  /\ \A j \in 1..Len(created) : \A k \in 1..Len(created) :
       j < k => created[j].id < created[k].id
  /\ \A j \in 1..Len(toasts) : \A k \in 1..Len(toasts) :
       j < k => toasts[j].id < toasts[k].id
  /\ displayedIds \subseteq {created[k].id : k \in 1..Len(created)}

\* the ids with a pending timer are the ids displayed
timersOfDisplayed ==
  /\ timers = displayedIds
  /\ {p.id : p \in pending} = displayedIds
  /\ \A p \in pending : \A q \in pending : p.id = q.id => p = q

\* C26 as stated: after any sequence of toast(), clicks, timer expiries and
\* clearToasts() a toast is displayed exactly until its duration has elapsed
\* or it was clicked; toasts are stacked in creation order with unique ids;
\* the ids with a pending timer are the ids displayed.
C26_DisplayedUntilElapsedOrClicked ==
  /\ \A k \in 1..Len(created) :
       created[k].id \in displayedIds
         <=> (~elapsed(created[k]) /\ created[k].id \notin clicked)
  /\ stackedInCreationOrder
  /\ timersOfDisplayed

\* C26, amended: a toast is displayed exactly until its duration has
\* elapsed, it was clicked or clearToasts() was called, whichever comes
\* first; toasts are stacked in creation order with unique ids; the ids with
\* a pending timer are the ids displayed.
C26_DisplayedUntilRemoved ==
  /\ \A k \in 1..Len(created) :
       created[k].id \in displayedIds
         <=> (/\ ~elapsed(created[k])
              /\ created[k].id \notin clicked
              /\ created[k].id \notin cleared)
  /\ stackedInCreationOrder
  /\ timersOfDisplayed

\* three toasts at time 0: toast 0 was clicked at once, toast 1 has lasted
\* its 1000 ms, and at 3499 ms toast 2 with the default duration is the one
\* displayed, with the one timer pending
C26_Witness ==
  /\ now = 3499
  /\ Len(created) = 3
  /\ \A k \in 1..3 : created[k].at = 0
  /\ created[2].options = Number(1000) /\ created[3].options = Undefined
  /\ clicked = {0} /\ cleared = {}
  /\ displayedIds = {2}
  /\ pending = {[id |-> 2, due |-> 3500]}

(***************************************************************************)
(* Properties of the theme store.                                          *)
(***************************************************************************)
\* the theme a storage holds, "none" when it holds no valid one
persistedTheme(store) ==
  IF store[keyMap.theme] = <<stringify(String("dark"))>> THEN "dark"
  ELSE IF store[keyMap.theme] = <<stringify(String("light"))>> THEN "light"
  ELSE "none"

flipped(theme) == IF theme = "dark" THEN "light" ELSE "dark"

\* once toggled, the theme of the hook, the attribute and the storage agree
\* with the last toggle, also after a later initTheme
themesAgree ==
  lastToggle # "none"
  => /\ useTheme(themeState) = lastToggle
     /\ dataTheme = lastToggle
     /\ persistedTheme(storage) = lastToggle

\* a toggle flips the theme
toggleFlips ==
  lastToggle' # lastToggle
  => /\ currentTheme \in Theme
     /\ currentTheme' = flipped(currentTheme)
     /\ lastToggle' = currentTheme'

C28_PersistedSystemDefault ==
  (pc = "initialised" /\ lastToggle = "none")
  => currentTheme
       = (IF persistedTheme(storage) # "none" THEN persistedTheme(storage)
          ELSE IF system = "light" THEN "light"
          ELSE "dark")

(***************************************************************************)
(* Properties of the look-back of the sentence scan.                       *)
(***************************************************************************)
\* how the scan classifies the token before a period
classified(token) ==
  IF token = << >> THEN "none"
  ELSE IF toLowerCase(token) \in ABBREVIATIONS THEN "abbreviation"
  ELSE IF INITIALS_RE(token) THEN "initial"
  ELSE "other"

\* the period at i is skipped when the whole run of letters before it is
\* the token classified
skippedByWholeRun(t, i) ==
  \/ classified(lettersBefore(t, i)) = "abbreviation"
  \/ classified(lettersBefore(t, i)) = "initial" /\ initialContinues(t, i)

\* C29: at every period of every text the token of the 20-character
\* backward scan is classified (abbreviation, single uppercase initial,
\* other, none) as the whole run of letters before the period is, and every
\* step of the scan at a period does what an unbounded look-back would do,
\* so countSentences is the count of an unbounded look-back.
C29_LookBackClassifiesAlike ==
  /\ [](\A i \in 0..(Len(trim(text)) - 1) :
          trim(text)[i + 1] = "."
          => classified(getWordBeforePeriod(trim(text), i))
               = classified(lettersBefore(trim(text), i)))
  /\ [][atSinglePeriod
          => IF skippedByWholeRun(trim(text), scan.i) THEN onlyAdvanced
             ELSE countedBoundary]_vars

\* the scan has passed a run of 21 letters "rrrrrrrrrrrrrrrrrrrDr" before a
\* period: the look-back saw 20 of them, and neither token is "dr"
C29_Witness ==
  /\ pc = "done"
  /\ text = repeated("r", 19) \o <<"D", "r", ".", " ", "D">>
  /\ Len(getWordBeforePeriod(text, 21)) = 20
  /\ Len(lettersBefore(text, 21)) = 21
  /\ classified(getWordBeforePeriod(text, 21)) = "other"
  /\ sentences = 2

(***************************************************************************)
(* The overflow detector against the totals of the Counter.                *)
(***************************************************************************)
\* the total the Counter reports for a limit kind
reportedTotal(t, type) ==
  CASE type = "words" -> countWords(t)
    [] type = "characters" -> countCharacters(t, TRUE)
    [] type = "paragraphs" -> countParagraphs(t)

\* the total detectOverflow compares with the limit: the Counter's total
\* for words and paragraphs, the length of the text for characters
comparedTotal(t, type) ==
  IF type = "characters" THEN Len(t) ELSE reportedTotal(t, type)

agreesWith(total) ==
  /\ overflow.isOver = (total > limitValue)
  /\ overflow.overflowAmount
       = (IF total > limitValue THEN total - limitValue ELSE 0)

\* C30 as stated: for every text, limit kind and limit value >= 0 the
\* result is over the limit exactly when the total the Counter reports
\* (countWords, countCharacters(text, true), countParagraphs) exceeds the
\* limit, by max(0, total - limit); a text whose reported count is 0 is
\* never over a limit.
C30_AgreesWithReportedTotals ==
  (OverflowDone /\ limitValue >= 0)
  => agreesWith(reportedTotal(text, limitType))

\* C30 amended: the same with the length of the text as the total of the
\* kind characters; the length is countCharacters(text, true) unless the
\* text is made only of whitespace, and such a text is never over a words
\* or paragraphs limit.
C30_AgreesWithComparedTotals ==
  (OverflowDone /\ limitValue >= 0)
  => /\ agreesWith(comparedTotal(text, limitType))
     /\ hasWord(text)
          => comparedTotal(text, limitType) = reportedTotal(text, limitType)
     /\ (~hasWord(text) /\ limitType # "characters") => ~overflow.isOver

\* two spaces against a character limit of 1: the Counter reports 0
\* characters, the detector compares the length 2 and is over by 1
C30_Witness ==
  /\ OverflowDone /\ limitType = "characters" /\ limitValue = 1
  /\ text = <<" ", " ">>
  /\ countCharacters(text, TRUE) = 0
  /\ overflow = OverflowResult(TRUE, 1, 1)

====
